---- MODULE Spec2Model ----
(***************************************************************************)
(* A model of tcfg: the typed-configuration validators of                  *)
(*   - tcfg/config.py        (CFGType, CFGUnionType, CFGGenericAlias.*,    *)
(*                            CFGLiteral and the cfg object tree),         *)
(*   - tcfg/type_check       (type_check and ct_validate),                 *)
(*   - tcfg/config_base.py   (ConfigBase).                                 *)
(*                                                                         *)
(* Python values are records [k |-> kind, v |-> payload]; a str is the     *)
(* sequence of its characters, a dict the sequence of its (key, value)     *)
(* items in insertion order.  A call returns a record                      *)
(*   [ok, val, err, inp]                                                   *)
(* where val is the returned value (when ok), err the raised exception     *)
(* (when ~ok) and inp the argument object as the call left it: the list    *)
(* and dict validators of config.py assign into their argument.            *)
(***************************************************************************)
EXTENDS Integers, Sequences, FiniteSets, TLC

VARIABLES
    engine,     \* which validator the engine step used: "cfg" | "tc" | "ct"
    node,       \* the schema node under validation
    value,      \* the value handed to the validator
    out,        \* the result of the last engine call
    op,         \* the last engine operation: "none" | "validate" | "default" | "revalidate"
    which,      \* which cfg class the tree is built with: "tcfg" | "playground"
    root,       \* the config class that is built
    isStrict,   \* the strict argument of the constructor
    raw,        \* the data argument of the constructor
    inst,       \* the result of the constructor: [ok, obj, err, inp]
    pc,         \* "new" | "built" | "failed" | "saved"
    changed,    \* the assignments made to the instance, as <<path, value>>
    saved,      \* the last save mapping built: [defaults, io, map, writes]
    heap,       \* the container objects allocated so far
    decl,       \* the declaration of the field whose default is produced
    owner,      \* whose default production runs: "tcfg" | "base"
    held,       \* the field of every instance built, in build order
    hit,        \* the instances whose field was mutated, in order
    before,     \* the values of the class default and of the fields before
                \* the last mutation
    baseCls,    \* the class a ConfigBase instance is built for
    baseCfg,    \* the cfg argument of the ConfigBase constructor
    base,       \* the result of the ConfigBase constructor: [ok, obj, err]
    basePc,     \* "new" | "built" | "failed" | "read"
    lastSet,    \* the last item assignment, deletion or save: [op, key, val, ok, err]
    asDict,     \* what the last as_dict() returned
    nSet,       \* the number of item assignments and deletions made
    thrown,     \* the ConfigTypeError as it was raised: [parents, message]
    cte,        \* the ConfigTypeError as it is now
    shown,      \* what str(err) returned, call by call
    given,      \* the path string handed to a normalizer
    normalizer, \* the normalizer applied to it, "" before the first pass
    normalized  \* the results of the passes made so far, oldest first

engineVars == <<engine, node, value, out, op>>

treeVars == <<which, root, isStrict, raw, inst, pc, changed, saved>>

heapVars == <<heap, decl, owner, held, hit, before>>

baseVars == <<baseCls, baseCfg, base, basePc, lastSet, asDict, nSet>>

errorVars == <<thrown, cte, shown>>

pathVars == <<given, normalizer, normalized>>

vars == <<engineVars, treeVars, heapVars, baseVars, errorVars, pathVars>>

----------------------------------------------------------------------------
(* Bounds of the model *)

\* longest list / tuple value enumerated
MaxLen == 3
\* largest fixed tuple arity enumerated
MaxArity == 2

----------------------------------------------------------------------------
(* Python values *)

MISSING == [k |-> "missing", v |-> <<>>]
None    == [k |-> "none", v |-> <<>>]
PyInt(n)  == [k |-> "int", v |-> n]
PyBool(b) == [k |-> "bool", v |-> b]
PyStr(s)  == [k |-> "str", v |-> s]
PyList(s) == [k |-> "list", v |-> s]
PyTuple(s) == [k |-> "tuple", v |-> s]
PyDict(s) == [k |-> "dict", v |-> s]
PySet(S) == [k |-> "set", v |-> S]
\* an instance of tcfg.reserved.Path holding the normalized path p
PathObj(p) == [k |-> "Path", v |-> p]

\* type(value).__name__
TypeName(x) == x.k

RECURSIVE Norm(_)
\* The value x with every bool replaced by the int it compares equal to
\* (True == 1 and False == 0 in Python) and every dict by the set of its
\* items (dicts compare equal whatever the order of their items).
Norm(x) ==
    CASE x.k = "bool" -> PyInt(IF x.v THEN 1 ELSE 0)
      [] x.k \in {"list", "tuple"} ->
            [k |-> x.k, v |-> [i \in 1..Len(x.v) |-> Norm(x.v[i])]]
      [] x.k = "dict" ->
            [k |-> x.k,
             v |-> {<<Norm(x.v[i][1]), Norm(x.v[i][2])>> : i \in 1..Len(x.v)}]
      [] x.k = "set" -> [k |-> x.k, v |-> {Norm(e) : e \in x.v}]
      [] OTHER -> x

\* a == b in Python
PyEq(a, b) == Norm(a) = Norm(b)

\* bool(value): the truth value Python gives an object
Truthy(x) ==
    CASE x.k \in {"none", "missing"} -> x.k = "missing"
      [] x.k = "bool" -> x.v
      [] x.k = "int" -> x.v # 0
      [] x.k \in {"str", "list", "tuple", "dict"} -> Len(x.v) > 0
      [] x.k = "set" -> x.v # {}
      [] OTHER -> TRUE

\* isinstance(value, ty) for a plain class ty; bool is a subclass of int
IsInstance(x, ty) ==
    CASE ty = "int" -> x.k \in {"int", "bool"}
      [] ty = "NoneType" -> x.k = "none"
      [] OTHER -> x.k = ty

\* ty(): the value a plain class builds when called without arguments
ZeroOf(ty) ==
    CASE ty = "int" -> PyInt(0)
      [] ty = "bool" -> PyBool(FALSE)
      [] ty = "str" -> PyStr(<<>>)
      [] ty = "list" -> PyList(<<>>)
      [] ty = "dict" -> PyDict(<<>>)
      [] ty = "tuple" -> PyTuple(<<>>)
      [] ty = "Path" -> PathObj(<<>>)
      [] OTHER -> None

----------------------------------------------------------------------------
(* Results of a call *)

\* No exception.  An exception is a record
\*   [exc, what, path, found, expected, index, n, m, arg]:
\* its class, the kind of message, the location the message gives, the
\* offending value, the descriptions the message lists as expected, the index
\* it names (-1: none) and the sizes it reports (-1: none).
NoErr ==
    [exc |-> "none", what |-> "", path |-> <<>>, found |-> None,
     expected |-> <<>>, index |-> -1, n |-> -1, m |-> -1, arg |-> ""]

Err(exc, what, path, found, expected, index, n, m) ==
    [exc |-> exc, what |-> what, path |-> path, found |-> found,
     expected |-> expected, index |-> index, n |-> n, m |-> m, arg |-> ""]

\* TypeError(message) as config.py raises it
TypeError(what, path, found, expected, index) ==
    Err("TypeError", what, path, found, expected, index, -1, -1)

\* tried: the union members whose validate was called, in call order
Ok(val, inp) ==
    [ok |-> TRUE, val |-> val, err |-> NoErr, inp |-> inp, tried |-> <<>>,
     called |-> FALSE]

Raise(err, inp) ==
    [ok |-> FALSE, val |-> None, err |-> err, inp |-> inp, tried |-> <<>>,
     called |-> FALSE]

----------------------------------------------------------------------------
(* Schema nodes: the type hints a field is declared with *)

\* a plain class: int, float, bool, str, list, dict, Path (TypePath)
TType(ty) == [t |-> "type", ty |-> ty]
\* A | B | ...
TUnion(types) == [t |-> "union", types |-> types]
\* list[item], set[item], tuple[items...], dict[key, val]
TList(item) == [t |-> "list", item |-> item]
TSet(item) == [t |-> "set", item |-> item]
TTuple(items) == [t |-> "tuple", items |-> items]
TDict(key, val) == [t |-> "dict", key |-> key, val |-> val]
\* Literal[lits...]
TLiteral(lits) == [t |-> "literal", lits |-> lits]
\* typing.Optional[item]
TOptional(item) == [t |-> "optional", item |-> item]
\* a custom_type class subscripted with its bound arguments: Range[0, 10]
TCustom(name, args) == [t |-> "custom", name |-> name, args |-> args]

----------------------------------------------------------------------------
(* tcfg/reserved.py *)

\* s.replace("\\", "/")
ReplaceBackslash(s) == [i \in 1..Len(s) |-> IF s[i] = "\\" THEN "/" ELSE s[i]]

RECURSIVE LStrip(_, _)
\* s.lstrip(chars)
LStrip(s, chars) ==
    IF Len(s) > 0 /\ s[1] \in chars THEN LStrip(Tail(s), chars) ELSE s

RECURSIVE RStrip(_, _)
\* s.rstrip(chars)
RStrip(s, chars) ==
    IF Len(s) > 0 /\ s[Len(s)] \in chars
    THEN RStrip(SubSeq(s, 1, Len(s) - 1), chars) ELSE s

\* s.strip(chars)
Strip(s, chars) == RStrip(LStrip(s, chars), chars)

\* Path.normalize(path), strip=True, one segment
Path_normalize(s) == Strip(ReplaceBackslash(s), {"/"})

----------------------------------------------------------------------------
(* tcfg/config.py: the validation types *)

\* is_reserved(_type)
is_reserved(ty) == ty \in {"Path"}

\* get_type(value): the value itself when it is a class, else its class
get_type(x) == TypeName(x)

\* validate_reserved(value, TypePath, parents)
validate_reserved(x, parents) ==
    IF ~IsInstance(x, "str")
    THEN Raise(TypeError("invalid type", parents, x, <<TType("str")>>, -1), x)
    ELSE Ok(PyStr(Path_normalize(x.v)), x)

RECURSIVE CFG_validate(_, _, _)
RECURSIVE CFGDictType_loop(_, _, _, _)
RECURSIVE CFGTupleType_loop(_, _, _, _, _)
RECURSIVE CFGListType_loop(_, _, _, _)
RECURSIVE CFGSetType_loop(_, _, _, _, _)
RECURSIVE CFGUnionType_loop(_, _, _, _, _)
RECURSIVE CFGLiteral_loop(_, _, _, _)
RECURSIVE SetOf(_, _, _)

\* CFGType.validate
CFGType_validate(self, x, parents) ==
    IF is_reserved(self.ty) THEN validate_reserved(x, parents)
    ELSE IF ~IsInstance(x, self.ty)
    THEN Raise(TypeError("invalid type", parents, x, <<self>>, -1), x)
    ELSE Ok(x, x)

\* the for loop of CFGDictType.validate from item i of the dict's items on;
\* cur: the items of value, assigned into as the loop goes
CFGDictType_loop(self, cur, i, parents) ==
    IF i > Len(cur) THEN Ok(PyDict(cur), PyDict(cur))
    ELSE LET r == CFG_validate(self.val, cur[i][2], parents) IN
         IF r.ok
         THEN CFGDictType_loop(self, [cur EXCEPT ![i] = <<cur[i][1], r.val>>],
                               i + 1, parents)
         ELSE Raise(TypeError("invalid dict value type", parents, cur[i][2],
                              <<self.val>>, -1),
                    PyDict([cur EXCEPT ![i] = <<cur[i][1], r.inp>>]))

\* CFGGenericAlias.CFGDictType.validate
CFGDictType_validate(self, x, parents) ==
    IF ~IsInstance(x, "dict")
    THEN Raise(TypeError("invalid type", parents, x, <<TType("dict")>>, -1), x)
    ELSE CFGDictType_loop(self, x.v, 1, parents)

\* the for loop of CFGTupleType.validate from position i on; cur: the copy
\* list(value) the results are assigned into, orig: the items of the argument
CFGTupleType_loop(self, cur, orig, i, parents) ==
    IF i > Len(cur) THEN Ok(PyTuple(cur), PyList(orig))
    ELSE LET r == CFG_validate(self.items[i], cur[i], parents) IN
         IF r.ok
         THEN CFGTupleType_loop(self, [cur EXCEPT ![i] = r.val],
                                [orig EXCEPT ![i] = r.inp], i + 1, parents)
         ELSE Raise(TypeError("invalid item type", parents, cur[i],
                              <<self.items[i]>>, i - 1),
                    PyList([orig EXCEPT ![i] = r.inp]))

\* CFGGenericAlias.CFGTupleType.validate
CFGTupleType_validate(self, x, parents) ==
    IF ~IsInstance(x, "list")
    THEN Raise(TypeError("invalid value type", parents, x, <<TType("list")>>, -1), x)
    ELSE IF Len(self.items) # Len(x.v)
    THEN Raise(Err("TypeError",
                   IF Len(x.v) > Len(self.items) THEN "Too many items"
                                                 ELSE "Too few items",
                   parents, x, <<>>, -1, Len(self.items), Len(x.v)), x)
    ELSE CFGTupleType_loop(self, x.v, x.v, 1, parents)

\* the for loop of CFGListType.validate from index i - 1 on; cur: the items of
\* value, assigned into as the loop goes
CFGListType_loop(self, cur, i, parents) ==
    IF i > Len(cur) THEN Ok(PyList(cur), PyList(cur))
    ELSE LET r == CFG_validate(self.item, cur[i], parents) IN
         IF r.ok
         THEN CFGListType_loop(self, [cur EXCEPT ![i] = r.val], i + 1, parents)
         ELSE Raise(TypeError("invalid item type", parents, cur[i],
                              <<self.item>>, i - 1),
                    PyList([cur EXCEPT ![i] = r.inp]))

\* CFGGenericAlias.CFGListType.validate
CFGListType_validate(self, x, parents) ==
    IF ~IsInstance(x, "list")
    THEN Raise(TypeError("invalid value type", parents, x, <<TType("list")>>, -1), x)
    ELSE CFGListType_loop(self, x.v, 1, parents)

\* set(items): the items of a sequence from item i on added to S, an item
\* equal (==) to one already in the set is dropped
SetOf(items, i, S) ==
    IF i > Len(items) THEN S
    ELSE IF \E e \in S : PyEq(e, items[i]) THEN SetOf(items, i + 1, S)
    ELSE SetOf(items, i + 1, S \cup {items[i]})

\* the for loop of CFGSetType.validate from index i - 1 on
CFGSetType_loop(self, cur, orig, i, parents) ==
    IF i > Len(cur) THEN Ok(PySet(SetOf(cur, 1, {})), PyList(orig))
    ELSE LET r == CFG_validate(self.item, cur[i], parents) IN
         IF r.ok
         THEN CFGSetType_loop(self, [cur EXCEPT ![i] = r.val],
                              [orig EXCEPT ![i] = r.inp], i + 1, parents)
         ELSE Raise(TypeError("invalid item type", parents, cur[i],
                              <<self.item>>, i - 1),
                    PyList([orig EXCEPT ![i] = r.inp]))

\* CFGGenericAlias.CFGSetType.validate
CFGSetType_validate(self, x, parents) ==
    IF ~IsInstance(x, "list")
    THEN Raise(TypeError("invalid value type", parents, x, <<TType("list")>>, -1), x)
    ELSE CFGSetType_loop(self, x.v, x.v, 1, parents)

\* the for loop of CFGUnionType.validate from member i on; cur: the value as
\* the members tried so far left it, tried: the members tried so far
CFGUnionType_loop(self, cur, i, parents, tried) ==
    IF i > Len(self.types)
    THEN [Raise(TypeError("invalid type, expected one of", parents, cur,
                          self.types, -1), cur) EXCEPT !.tried = tried]
    ELSE LET r == CFG_validate(self.types[i], cur,
                               parents \o <<"union", "_type">>) IN
         IF r.ok THEN [r EXCEPT !.tried = Append(tried, i)]
         ELSE CFGUnionType_loop(self, r.inp, i + 1, parents, Append(tried, i))

\* CFGUnionType.validate
CFGUnionType_validate(self, x, parents) ==
    CFGUnionType_loop(self, x, 1, parents, <<>>)

\* the for loop of CFGLiteral.validate from option i on
CFGLiteral_loop(self, x, i, parents) ==
    IF i > Len(self.lits)
    THEN Raise(TypeError("invalid value, expected one of", parents, x,
                         self.lits, -1), x)
    ELSE IF is_reserved(get_type(self.lits[i])) THEN validate_reserved(x, parents)
    ELSE IF PyEq(x, self.lits[i]) THEN Ok(x, x)
    ELSE CFGLiteral_loop(self, x, i + 1, parents)

\* a CFGLiteral.validate that compares with the first option only
CFGLiteral_validate_first(self, x, parents) ==
    IF PyEq(x, self.lits[1]) THEN Ok(x, x)
    ELSE Raise(TypeError("invalid value, expected one of", parents, x,
                         self.lits, -1), x)

\* CFGLiteral.validate
CFGLiteral_validate(self, x, parents) == CFGLiteral_loop(self, x, 1, parents)

\* _type.validate(value, parents): the validate method of the node's class
CFG_validate(self, x, parents) ==
    CASE self.t = "type" -> CFGType_validate(self, x, parents)
      [] self.t = "dict" -> CFGDictType_validate(self, x, parents)
      [] self.t = "tuple" -> CFGTupleType_validate(self, x, parents)
      [] self.t = "list" -> CFGListType_validate(self, x, parents)
      [] self.t = "set" -> CFGSetType_validate(self, x, parents)
      [] self.t = "union" -> CFGUnionType_validate(self, x, parents)
      [] self.t = "literal" -> CFGLiteral_validate(self, x, parents)

\* _type.default(): the default method of the node's class.  CFGUnionType's
\* calls its first member, a validation type, which is not callable.
CFG_default(self) ==
    CASE self.t = "type" -> Ok(ZeroOf(self.ty), MISSING)
      [] self.t = "dict" -> Ok(PyDict(<<>>), MISSING)
      [] self.t = "tuple" -> Ok(PyTuple(<<>>), MISSING)
      [] self.t = "list" -> Ok(PyList(<<>>), MISSING)
      [] self.t = "set" -> Ok(PySet({}), MISSING)
      [] self.t = "union" ->
            Raise(TypeError("object is not callable", <<>>, MISSING,
                            <<self.types[1]>>, -1), MISSING)
      [] self.t = "literal" -> Ok(self.lits[1], MISSING)

----------------------------------------------------------------------------
(* tcfg/type_check/__init__.py.  A path segment is <<type, index>>, with   *)
(* index -1 for None.                                                      *)

\* ConfigTypeError(parents, message)
ConfigTypeError(what, path, found, expected, index, n, m) ==
    Err("ConfigTypeError", what, path, found, expected, index, n, m)

\* the TypeError Python itself raises (no ConfigTypeError): isinstance with a
\* parameterized generic, a call of something not callable, an unknown alias
Fault(what, x) == Raise(Err("TypeError", what, <<>>, x, <<>>, -1, -1, -1), x)

RECURSIVE IsInstanceOfAny(_, _, _)
\* isinstance(value, classes) from member i of the tuple of classes on: the
\* members are tested in order, and testing a parameterized generic (list[int],
\* Literal[...]) raises TypeError.  "yes" | "no" | "fault"
IsInstanceOfAny(x, classes, i) ==
    IF i > Len(classes) THEN "no"
    ELSE IF classes[i].t # "type" THEN "fault"
    ELSE IF IsInstance(x, classes[i].ty) THEN "yes"
    ELSE IsInstanceOfAny(x, classes, i + 1)

\* _type(): calling a type hint without arguments
CallType(self) ==
    CASE self.t = "type" -> Ok(ZeroOf(self.ty), MISSING)
      [] self.t = "list" -> Ok(PyList(<<>>), MISSING)
      [] self.t = "tuple" -> Ok(PyTuple(<<>>), MISSING)
      [] self.t = "set" -> Ok(PySet({}), MISSING)
      [] self.t = "dict" -> Ok(PyDict(<<>>), MISSING)
      [] OTHER -> Fault("cannot be instantiated", MISSING)

RECURSIVE type_check(_, _, _)
RECURSIVE type_check_items(_, _, _, _, _)
RECURSIVE type_check_tuple_items(_, _, _, _)
RECURSIVE type_check_dict_items(_, _, _, _)

\* _type_check_union
type_check_union(self, x, parents) ==
    IF self.t = "optional"
    THEN IF x = MISSING THEN Ok(None, x)
         ELSE LET is == IsInstanceOfAny(x, <<self.item, TType("NoneType")>>, 1) IN
              IF is = "fault" THEN Fault("isinstance() argument 2", x)
              ELSE IF is = "no"
              THEN Raise(ConfigTypeError("Expected either or None",
                                         parents \o <<<<self, 0>>>>, x,
                                         <<self.item>>, -1, -1, -1), x)
              ELSE Ok(x, x)
    ELSE IF x = MISSING THEN CallType(self.types[1])
         ELSE LET is == IsInstanceOfAny(x, self.types, 1) IN
              IF is = "fault" THEN Fault("isinstance() argument 2", x)
              ELSE IF is = "no"
              THEN Raise(ConfigTypeError("Expected one of",
                                         parents \o <<<<self, -1>>>>, x,
                                         self.types, -1, -1, -1), x)
              ELSE Ok(x, x)

\* the try block of _type_check_list_ and _type_check_set_: the items of the
\* value checked from item i on against item_type at the path segment
\* (self, 0); a ConfigTypeError is raised anew with the index reached
type_check_items(self, item_type, items, i, parents) ==
    IF i > Len(items) THEN Ok(None, None)
    ELSE LET r == type_check(item_type, items[i], parents \o <<<<self, 0>>>>) IN
         IF r.ok THEN type_check_items(self, item_type, items, i + 1, parents)
         ELSE IF r.err.exc = "ConfigTypeError"
         THEN Raise(ConfigTypeError("Expected type at index",
                                    parents \o <<<<self, 0>>>>, items[i],
                                    <<item_type>>, i - 1, -1, -1), None)
         ELSE r

\* _type_check_list_
type_check_list_(self, x, parents) ==
    IF x = MISSING THEN Ok(PyList(<<>>), x)
    ELSE IF ~IsInstance(x, "list")
    THEN Raise(ConfigTypeError("Expected a list", parents \o <<<<self, -1>>>>,
                               x, <<>>, -1, -1, -1), x)
    ELSE LET r == type_check_items(self, self.item, x.v, 1, parents) IN
         IF r.ok THEN Ok(x, x) ELSE [r EXCEPT !.inp = x]

\* the try block of _type_check_tuple_ from item i on: every item is checked
\* against the first element type, _type.__args__[0]; the error raised anew
\* names _type.__args__[idx]
type_check_tuple_items(self, items, i, parents) ==
    IF i > Len(items) THEN Ok(None, None)
    ELSE LET r == type_check(self.items[1], items[i],
                             parents \o <<<<self, i - 1>>>>) IN
         IF r.ok THEN type_check_tuple_items(self, items, i + 1, parents)
         ELSE IF r.err.exc = "ConfigTypeError"
         THEN Raise(ConfigTypeError("Expected type at index",
                                    parents \o <<<<self, i - 1>>>>, items[i],
                                    <<self.items[i]>>, i - 1, -1, -1), None)
         ELSE r

\* _type_check_tuple_
type_check_tuple_(self, x, parents) ==
    IF x = MISSING THEN Ok(PyTuple(<<>>), x)
    ELSE IF ~(IsInstance(x, "list") \/ IsInstance(x, "tuple"))
    THEN Raise(ConfigTypeError("Expected the value to be a list or tuple",
                               parents \o <<<<self, -1>>>>, x, <<>>, -1, -1, -1), x)
    ELSE IF Len(self.items) > 0
    THEN IF Len(self.items) # Len(x.v)
         THEN Raise(ConfigTypeError("Expected a list or tuple of size",
                                    parents \o <<<<self, -1>>>>, x, <<>>, -1,
                                    Len(self.items), Len(x.v)), x)
         ELSE LET r == type_check_tuple_items(self, x.v, 1, parents) IN
              IF r.ok THEN Ok(PyTuple(x.v), x) ELSE [r EXCEPT !.inp = x]
    ELSE Ok(PyTuple(x.v), x)

RECURSIVE SeqOfSet(_)
\* the elements of a set in the order iteration gives them (one fixed order)
SeqOfSet(S) ==
    IF S = {} THEN <<>>
    ELSE LET e == CHOOSE e \in S : TRUE IN <<e>> \o SeqOfSet(S \ {e})

\* the items a for loop over a list, tuple or set yields
ItemsOf(x) == IF x.k = "set" THEN SeqOfSet(x.v) ELSE x.v

\* _type_check_set_
type_check_set_(self, x, parents) ==
    IF x = MISSING THEN Ok(PySet({}), x)
    ELSE IF ~(IsInstance(x, "list") \/ IsInstance(x, "tuple") \/ IsInstance(x, "set"))
    THEN Raise(ConfigTypeError("Expected the value to be a list, tuple, or set",
                               parents \o <<<<self, -1>>>>, x, <<>>, -1, -1, -1), x)
    ELSE LET r == type_check_items(self, self.item, ItemsOf(x), 1, parents) IN
         IF r.ok THEN Ok(PySet(SetOf(ItemsOf(x), 1, {})), x)
         ELSE [r EXCEPT !.inp = x]

\* the for loop of _type_check_dict_ from item i on: no try around it, the
\* error of a key or of a value is the error of the call
type_check_dict_items(self, items, i, parents) ==
    IF i > Len(items) THEN Ok(None, None)
    ELSE LET rk == type_check(self.key, items[i][1],
                              parents \o <<<<self, 0>>>>)
             rv == type_check(self.val, items[i][2], parents \o <<<<self, 1>>>>)
         IN IF ~rk.ok THEN rk
            ELSE IF ~rv.ok THEN rv
            ELSE type_check_dict_items(self, items, i + 1, parents)

\* _type_check_dict_
type_check_dict_(self, x, parents) ==
    IF x = MISSING THEN Ok(PyDict(<<>>), x)
    ELSE IF ~IsInstance(x, "dict")
    THEN Raise(ConfigTypeError("Expected the value to be a dict",
                               parents \o <<<<self, -1>>>>, x, <<>>, -1, -1, -1), x)
    ELSE LET r == type_check_dict_items(self, x.v, 1, parents) IN
         IF r.ok THEN Ok(x, x) ELSE [r EXCEPT !.inp = x]

\* _value not in _type.__args__
InArgs(x, lits) == \E i \in 1..Len(lits) : PyEq(x, lits[i])

\* _type_check_literal_
type_check_literal_(self, x, parents) ==
    IF x = MISSING THEN Ok(self.lits[1], x)
    ELSE IF ~InArgs(x, self.lits)
    THEN Raise(ConfigTypeError("Expected one of", parents \o <<<<self, -1>>>>,
                               x, self.lits, -1, -1, -1), x)
    ELSE Ok(x, x)

\* _type_check_generic
type_check_generic(self, x, parents) ==
    CASE self.t = "list" -> type_check_list_(self, x, parents)
      [] self.t = "tuple" -> type_check_tuple_(self, x, parents)
      [] self.t = "set" -> type_check_set_(self, x, parents)
      [] self.t = "dict" -> type_check_dict_(self, x, parents)
      [] self.t = "literal" -> type_check_literal_(self, x, parents)
      [] OTHER -> Fault("Unkown GenericAlias", x)

\* type_check
type_check(self, x, parents) ==
    IF self.t \in {"union", "optional"} THEN type_check_union(self, x, parents)
    ELSE IF self.t # "type" THEN type_check_generic(self, x, parents)
    ELSE IF ~IsInstance(x, self.ty)
    THEN Raise(ConfigTypeError("Expected but was", parents \o <<<<self, -1>>>>,
                               x, <<self>>, -1, -1, -1), x)
    ELSE IF x = MISSING THEN Ok(ZeroOf(self.ty), x)
    ELSE Ok(x, x)

----------------------------------------------------------------------------
(* tcfg/type_check/custom_types.py *)

\* ARG(idx): the default of a custom type is its bound argument idx
ARG(idx) == [k |-> "ARG", v |-> idx]

\* What custom_type(default) records on the class it makes of a validator
\* function: the names and annotations of its parameters after value, its
\* default, its return annotation ("none": not annotated) and its *args as
\* <<name, annotation>> (<<>>: no *args).  GreaterThan, LessThan, Range and
\* PathType are the types of the module; the others are made of the functions
\*   @custom_type(default=7)      def Const(value: int, a: int = 0) -> int
\*   @custom_type()               def Anno(value: int, a: int = 0) -> list
\*   @custom_type()               def Bare(value: int, a: int = 0)
\*   @custom_type(default=ARG(1)) def Between(value: int, low: int = 0, high: int = 0)
CustomType(name) ==
    CASE name = "GreaterThan" ->
            [_validator_args_ |-> <<"min">>, _validator_arg_types_ |-> <<"int">>,
             _default_ |-> ARG(0), _return_anno_ |-> "none", _vararg_ |-> <<>>]
      [] name = "LessThan" ->
            [_validator_args_ |-> <<"max">>, _validator_arg_types_ |-> <<"int">>,
             _default_ |-> ARG(0), _return_anno_ |-> "none", _vararg_ |-> <<>>]
      [] name = "Range" ->
            [_validator_args_ |-> <<"min", "max">>,
             _validator_arg_types_ |-> <<"int", "int">>,
             _default_ |-> ARG(0), _return_anno_ |-> "none", _vararg_ |-> <<>>]
      [] name = "PathType" ->
            [_validator_args_ |-> <<"exists">>, _validator_arg_types_ |-> <<"bool">>,
             _default_ |-> PyStr(<<".">>), _return_anno_ |-> "str",
             _vararg_ |-> <<"args", "str">>]
      [] name = "Const" ->
            [_validator_args_ |-> <<"a">>, _validator_arg_types_ |-> <<"int">>,
             _default_ |-> PyInt(7), _return_anno_ |-> "int", _vararg_ |-> <<>>]
      [] name = "Anno" ->
            [_validator_args_ |-> <<"a">>, _validator_arg_types_ |-> <<"int">>,
             _default_ |-> MISSING, _return_anno_ |-> "list", _vararg_ |-> <<>>]
      [] name = "Bare" ->
            [_validator_args_ |-> <<"a">>, _validator_arg_types_ |-> <<"int">>,
             _default_ |-> MISSING, _return_anno_ |-> "none", _vararg_ |-> <<>>]
      [] name = "Between" ->
            [_validator_args_ |-> <<"low", "high">>,
             _validator_arg_types_ |-> <<"int", "int">>,
             _default_ |-> ARG(1), _return_anno_ |-> "none", _vararg_ |-> <<>>]

\* CustomTypeError(message, arg=arg); arg "" stands for None
CustomTypeError(what, found, arg) ==
    [Err("CustomTypeError", what, <<>>, found, <<>>, -1, -1, -1) EXCEPT !.arg = arg]

\* the int an int or a bool counts as in a comparison
Num(x) == IF x.k = "bool" THEN (IF x.v THEN 1 ELSE 0) ELSE x.v

\* the argument bound to the parameter at position i (from 1), or the
\* parameter's default 0 when fewer arguments are passed
Param(args, i) == IF i <= Len(args) THEN Num(args[i]) ELSE 0

\* GreaterThan(value, min=0)
GreaterThan(x, args) ==
    IF ~IsInstance(x, "int")
    THEN Raise(TypeError("Expected value to be 'int'", <<>>, x, <<>>, -1), x)
    ELSE IF Num(x) <= Param(args, 1)
    THEN Raise(Err("TypeError", "Expected value to be greater than", <<>>, x,
                   <<>>, -1, Param(args, 1), -1), x)
    ELSE Ok(x, x)

\* LessThan(value, max=0)
LessThan(x, args) ==
    IF ~IsInstance(x, "int")
    THEN Raise(TypeError("Expected value to be 'int'", <<>>, x, <<>>, -1), x)
    ELSE IF Num(x) >= Param(args, 1)
    THEN Raise(Err("TypeError", "Expected value to be less than", <<>>, x,
                   <<>>, -1, -1, Param(args, 1)), x)
    ELSE Ok(x, x)

\* Range with the upper bound accepted
Range_closed(x, args) ==
    IF ~IsInstance(x, "int")
    THEN Raise(TypeError("Expected value to be an int", <<>>, x, <<>>, -1), x)
    ELSE IF Num(x) < Param(args, 1) \/ Num(x) > Param(args, 2)
    THEN Raise(Err("TypeError", "Expected min <= value < max", <<>>, x,
                   <<>>, -1, Param(args, 1), Param(args, 2)), x)
    ELSE Ok(x, x)

\* Range(value, min=0, max=0); the message names min <= value < max
Range(x, args) ==
    IF ~IsInstance(x, "int")
    THEN Raise(TypeError("Expected value to be an int", <<>>, x, <<>>, -1), x)
    ELSE IF Num(x) < Param(args, 1) \/ Num(x) >= Param(args, 2)
    THEN Raise(Err("TypeError", "Expected min <= value < max", <<>>, x,
                   <<>>, -1, Param(args, 1), Param(args, 2)), x)
    ELSE Ok(x, x)

RECURSIVE ReplaceDoubleSlash(_)
\* s.replace("//", "/"): the occurrences are taken from the left and do not
\* overlap
ReplaceDoubleSlash(s) ==
    IF Len(s) < 2 THEN s
    ELSE IF s[1] = "/" /\ s[2] = "/"
    THEN <<"/">> \o ReplaceDoubleSlash(SubSeq(s, 3, Len(s)))
    ELSE <<s[1]>> \o ReplaceDoubleSlash(Tail(s))

\* Path(value).exists(): the working directory holds no file, and the empty
\* path is the working directory itself
PathExists(s) == s = <<>>

\* PathType(value, exists=False, *args)
PathType(x, args) ==
    LET exists == Len(args) >= 1 /\ Truthy(args[1])
        p == LStrip(ReplaceDoubleSlash(ReplaceBackslash(x.v)), {".", "/"})
    IN IF ~IsInstance(x, "str")
       THEN Raise(TypeError("Expected value to be 'str'", <<>>, x, <<>>, -1), x)
       ELSE IF exists /\ ~PathExists(p)
       THEN Raise(CustomTypeError("File not found at location", PyStr(p), "exists"), x)
       ELSE Ok(PyStr(p), x)

\* def Between(value: int, low: int = 0, high: int = 0):
\*     if not isinstance(value, int):
\*         raise CustomTypeError("Expected an int", arg="value")
\*     if low > high: raise CustomTypeError("Empty interval")
\*     if value < low: raise CustomTypeError("Too small", arg="low")
\*     if value > high: raise CustomTypeError("Too large", arg="high")
\*     return value
Between(x, args) ==
    IF ~IsInstance(x, "int")
    THEN Raise(CustomTypeError("Expected an int", x, "value"), x)
    ELSE IF Param(args, 1) > Param(args, 2)
    THEN Raise(CustomTypeError("Empty interval", x, ""), x)
    ELSE IF Num(x) < Param(args, 1)
    THEN Raise(CustomTypeError("Too small", x, "low"), x)
    ELSE IF Num(x) > Param(args, 2)
    THEN Raise(CustomTypeError("Too large", x, "high"), x)
    ELSE Ok(x, x)

\* ct._validator_(value, *args); Const, Anno and Bare return the value
Validator(name, x, args) ==
    CASE name = "GreaterThan" -> GreaterThan(x, args)
      [] name = "LessThan" -> LessThan(x, args)
      [] name = "Range" -> Range(x, args)
      [] name = "PathType" -> PathType(x, args)
      [] name = "Between" -> Between(x, args)
      [] OTHER -> Ok(x, x)

\* the smaller of two numbers
Min(a, b) == IF a <= b THEN a ELSE b

\* the "Validate args" loop of ct_validate: the index (from 0) of the first
\* bound argument that is no instance of its parameter's annotation, -1 if none
FirstBadArg(ct) ==
    LET C == CustomType(ct.name)
        bad == {i \in 1..Min(Len(ct.args), Len(C._validator_args_)) :
                   ~IsInstance(ct.args[i], C._validator_arg_types_[i])}
    IN IF bad = {} THEN -1
       ELSE (CHOOSE i \in bad : \A j \in bad : i <= j) - 1

\* no check of the arguments after the parameters
FirstBadVararg_none(ct) == -1

\* the loop over ct.__args__[idx + 1:] of ct_validate, idx being the index of
\* the last argument the first loop visited: the index (from 0) of the first
\* further argument that is no instance of the annotation of *args, -1 if
\* there is none, no *args or no annotation on it
FirstBadVararg(ct) ==
    LET C == CustomType(ct.name)
        idx == Min(Len(ct.args), Len(C._validator_args_)) - 1
        bad == IF idx < Len(C._validator_args_) /\ C._vararg_ # <<>>
                  /\ C._vararg_[2] # "MISSING"
               THEN {i \in (idx + 2)..Len(ct.args) :
                        ~IsInstance(ct.args[i], C._vararg_[2])}
               ELSE {}
    IN IF bad = {} THEN -1
       ELSE (CHOOSE i \in bad : \A j \in bad : i <= j) - 1

\* the declared default as it is, ARG(i) included
ct_default_declared(ct) == CustomType(ct.name)._default_

\* the "Build default if MISSING" block of ct_validate; an exception in it
\* (ARG(i) with no argument i) makes the default None
ct_default(ct) ==
    LET C == CustomType(ct.name) IN
    IF C._default_ = MISSING
    THEN (IF C._return_anno_ = "none" THEN None ELSE ZeroOf(C._return_anno_))
    ELSE IF C._default_.k = "ARG"
    THEN (IF C._default_.v + 1 <= Len(ct.args) THEN ct.args[C._default_.v + 1]
          ELSE None)
    ELSE C._default_

\* ct._validator_args_.index(arg), from 0; -1 when index raises ValueError
ArgIndex(names, arg) ==
    IF \E i \in 1..Len(names) : names[i] = arg
    THEN (CHOOSE i \in 1..Len(names) :
             names[i] = arg /\ \A j \in 1..(i - 1) : names[j] # arg) - 1
    ELSE -1

\* ct_validate(ct, value, __parents__); the validator is called with the
\* first len(_validator_args_) bound arguments, with all of them when it
\* takes *args.  called: ct._validator_ was called
ct_validate(ct, x, parents) ==
    LET C == CustomType(ct.name)
        bad == FirstBadArg(ct)
        extra == FirstBadVararg(ct)
        stop == IF C._vararg_ = <<>>
                THEN Min(Len(ct.args), Len(C._validator_args_))
                ELSE Len(ct.args)
        r == Validator(ct.name, x, SubSeq(ct.args, 1, stop))
        at == ArgIndex(C._validator_args_, r.err.arg)
        raised(e) == [Raise(e, x) EXCEPT !.called = TRUE]
    IN IF bad >= 0
       THEN Raise(ConfigTypeError("The type for arg", parents \o <<<<ct, bad>>>>,
                                  ct.args[bad + 1],
                                  <<TType(C._validator_arg_types_[bad + 1])>>,
                                  bad, -1, -1), x)
       ELSE IF extra >= 0
       THEN Raise(ConfigTypeError("The type for the varargs",
                                  parents \o <<<<ct, extra>>>>,
                                  ct.args[extra + 1], <<TType(C._vararg_[2])>>,
                                  extra, -1, -1), x)
       ELSE IF x = MISSING THEN Ok(ct_default(ct), x)
       ELSE IF r.ok THEN [r EXCEPT !.called = TRUE]
       ELSE IF r.err.exc = "TypeError"
       THEN raised([r.err EXCEPT !.exc = "ConfigTypeError",
                                 !.path = parents \o <<<<ct, -1>>>>])
       ELSE IF r.err.exc = "CustomTypeError" /\ r.err.arg = ""
       THEN raised([r.err EXCEPT !.exc = "ConfigTypeError",
                                 !.path = parents \o <<<<ct, -1>>>>])
       ELSE IF r.err.exc = "CustomTypeError" /\ at >= 0
       THEN raised([r.err EXCEPT !.exc = "ConfigTypeError",
                                 !.path = parents \o <<<<ct, at>>>>,
                                 !.index = at])
       ELSE IF r.err.exc = "CustomTypeError"
       THEN raised(Err("ValueError", "is not in list", <<>>, x, <<>>, -1, -1, -1))
       ELSE raised(r.err)

----------------------------------------------------------------------------
(* The cfg object tree of tcfg/config.py and of playground/config.py.  A   *)
(* config class is the record of its name, its _path_ ("": not set) and    *)
(* its fields in the order __tcfg_values__ lists them; an instance is the  *)
(* record of its class, _path_, __tcfg_strict__, __tcfg_values__ and its   *)
(* attributes.  impl is "tcfg" for tcfg/config.py and "playground" for     *)
(* playground/config.py, which validates with type_check.                  *)

\* no annotation
NoAnno == [t |-> "none"]
\* the annotation that names a cfg subclass
TCfg(cls) == [t |-> "cfg", cls |-> cls]
\* a class attribute: its name, annotation and value (MISSING: no value)
Field(key, anno, default) == [key |-> key, anno |-> anno, default |-> default]
\* class name(cfg) with _path_ = path
ConfigClass(name, path, fields) ==
    [name |-> name, path |-> path, fields |-> fields]

\* the str key of the field called name in a mapping; a name is one atom
Key(name) == PyStr(<<name>>)

\* key in d, for a dict d
HasKey(d, key) == \E i \in 1..Len(d.v) : PyEq(d.v[i][1], key)
\* the position of key in the dict d
IndexOf(d, key) == CHOOSE i \in 1..Len(d.v) : PyEq(d.v[i][1], key)
\* d[key]
Lookup(d, key) == d.v[IndexOf(d, key)][2]
\* the dict d after the object held under its item i was left as x
Store(d, i, x) == [d EXCEPT !.v[i][2] = x]
\* the dict d after d.pop(key, ...)
Pop(d, key) == PyDict(SelectSeq(d.v, LAMBDA it : ~PyEq(it[1], key)))

\* hasattr(obj, name)
hasattr(obj, name) == \E i \in 1..Len(obj.attrs) : obj.attrs[i][1] = name
\* getattr(obj, name)
getattr(obj, name) ==
    obj.attrs[CHOOSE i \in 1..Len(obj.attrs) : obj.attrs[i][1] = name][2]
\* setattr(obj, name, x)
setattr(obj, name, x) ==
    IF hasattr(obj, name)
    THEN [obj EXCEPT !.attrs = [i \in 1..Len(@) |->
                         IF @[i][1] = name THEN <<name, x>> ELSE @[i]]]
    ELSE [obj EXCEPT !.attrs = Append(@, <<name, x>>)]

\* valid_type
valid_type == {"int", "float", "bool", "str", "list", "dict", "Path"}

\* isinstance(_type, CFGType) and cfg in _type.type.__bases__
IsNested(type) == type.t = "cfg"

\* __tcfg_attributes__: the _path_ of an instance, MISSING when not set
tcfg_attributes(cls) == IF cls.path = "" THEN MISSING ELSE PyStr(<<cls.path>>)

\* the result of building or validating a config: obj is the instance as
\* the call left it, inp the data object as the call left it
BuildOk(obj, inp) == [ok |-> TRUE, obj |-> obj, err |-> NoErr, inp |-> inp]
BuildRaise(err, obj, inp) == [ok |-> FALSE, obj |-> obj, err |-> err, inp |-> inp]

\* the instance before __tcfg_setup__
NewObj(cls) ==
    [k |-> "cfg", cls |-> cls, path |-> tcfg_attributes(cls), strict |-> TRUE,
     values |-> <<>>, attrs |-> <<>>]

\* get_default of playground/config.py
get_default(type) ==
    IF IsNested(type) THEN None
    ELSE IF CallType(type).ok THEN CallType(type).val ELSE None

\* a setup that puts the default of the type in place of the declared value
setup_entry_synthesized(impl, f) ==
    LET type == IF f.anno.t # "none" THEN f.anno ELSE TType(TypeName(f.default))
    IN Ok([key |-> f.key, type |-> type,
           default |-> IF IsNested(type) THEN MISSING ELSE get_default(type)],
          MISSING)

\* the entry of __tcfg_values__ for the field f: its type and its default
setup_entry(impl, f) ==
    LET type == IF f.anno.t # "none" THEN f.anno ELSE TType(TypeName(f.default))
        made == IF IsNested(type) THEN Ok(MISSING, MISSING) ELSE CFG_default(type)
    IN
    IF impl = "playground"
    THEN Ok([key |-> f.key, type |-> type,
             default |-> IF f.default = MISSING THEN get_default(type)
                         ELSE f.default], MISSING)
    ELSE IF f.anno.t = "none" /\ TypeName(f.default) \notin valid_type
    THEN Raise(TypeError("invalid type, expected one of", <<f.key>>,
                         f.default, <<>>, -1), MISSING)
    ELSE IF f.default = MISSING /\ ~made.ok THEN made
    ELSE IF f.default.k = "Path"
    THEN Ok([key |-> f.key, type |-> TType("Path"),
             default |-> PyStr(f.default.v)], MISSING)
    ELSE Ok([key |-> f.key, type |-> type,
             default |-> IF f.default = MISSING THEN made.val ELSE f.default],
            MISSING)

RECURSIVE tcfg_setup_loop(_, _, _)
\* the last loop of __tcfg_setup__ from field i on
tcfg_setup_loop(impl, obj, i) ==
    IF i > Len(obj.cls.fields) THEN BuildOk(obj, MISSING)
    ELSE LET e == setup_entry(impl, obj.cls.fields[i]) IN
         IF ~e.ok THEN BuildRaise(e.err, obj, MISSING)
         ELSE tcfg_setup_loop(
                  impl,
                  setattr([obj EXCEPT !.values = Append(@, e.val)],
                          e.val.key, e.val.default),
                  i + 1)

\* __tcfg_setup__
tcfg_setup(impl, cls) == tcfg_setup_loop(impl, NewObj(cls), 1)

\* key in self.__tcfg_values__
Declared(obj, key) == \E i \in 1..Len(obj.values) : Key(obj.values[i].key) = key
\* self.__tcfg_values__[key]
Entry(obj, key) ==
    obj.values[CHOOSE i \in 1..Len(obj.values) : Key(obj.values[i].key) = key]

\* the path segment the playground's __validate__ puts before the message of
\* a ConfigTypeError
KeySegment(parents, key) == <<[t |-> "key", parents |-> parents, key |-> key], -1>>

\* the validation of the first loop of __validate__: validate of the CFG type
\* in tcfg/config.py, type_check in the playground
validate_value(impl, type, x, parents, key) ==
    IF impl = "tcfg" THEN CFG_validate(type, x, parents \o <<key.v[1]>>)
    ELSE LET r == type_check(type, x, <<>>) IN
         IF ~r.ok /\ r.err.exc = "ConfigTypeError"
         THEN [r EXCEPT !.err.path = <<KeySegment(parents, key)>> \o @]
         ELSE r

RECURSIVE validate_entries(_, _, _, _, _)
\* the first loop of __validate__ from item i of data on
validate_entries(impl, obj, data, i, parents) ==
    IF i > Len(data.v) THEN BuildOk(obj, data)
    ELSE LET key == data.v[i][1] IN
         IF ~Declared(obj, key) /\ obj.strict
         THEN BuildRaise(Err(IF impl = "tcfg" THEN "KeyError" ELSE "ConfigKeyError",
                             "invalid configuration key", parents, key,
                             <<>>, -1, -1, -1), obj, data)
         ELSE IF ~Declared(obj, key)
         THEN BuildRaise(Err("KeyError", "", <<>>, key, <<>>, -1, -1, -1),
                         obj, data)
         ELSE IF IsNested(Entry(obj, key).type)
         THEN validate_entries(impl, obj, data, i + 1, parents)
         ELSE LET r == validate_value(impl, Entry(obj, key).type, data.v[i][2],
                                      parents, key)
              IN IF ~r.ok THEN BuildRaise(r.err, obj, Store(data, i, r.inp))
                 ELSE validate_entries(impl, setattr(obj, key.v[1], r.val),
                                       Store(data, i, r.inp), i + 1, parents)

RECURSIVE cfg_new(_, _, _, _, _)
RECURSIVE validate_nested(_, _, _, _, _)
\* the second loop of __validate__ from entry i of __tcfg_values__ on: every
\* field typed with a cfg subclass is built from its entry of data, or from
\* {} when data has none; the nested class is called without strict
validate_nested(impl, obj, data, i, parents) ==
    IF i > Len(obj.values) THEN BuildOk(obj, data)
    ELSE LET e == obj.values[i] IN
         IF ~IsNested(e.type)
         THEN IF impl = "playground" /\ getattr(obj, e.key) = MISSING
              THEN validate_nested(impl, setattr(obj, e.key, get_default(e.type)),
                                   data, i + 1, parents)
              ELSE validate_nested(impl, obj, data, i + 1, parents)
         ELSE LET has == HasKey(data, Key(e.key))
                  data_value == IF has THEN Lookup(data, Key(e.key))
                                ELSE PyDict(<<>>)
                  r == cfg_new(impl, e.type.cls, data_value,
                               parents \o <<e.key>>, TRUE)
                  left == IF impl = "playground" THEN Pop(data, Key(e.key))
                          ELSE IF has
                          THEN Store(data, IndexOf(data, Key(e.key)), r.inp)
                          ELSE data
              IN IF ~r.ok THEN BuildRaise(r.err, obj, left)
                 ELSE validate_nested(impl, setattr(obj, e.key, r.obj), left,
                                      i + 1, parents)

\* a __validate__ that drops the keys it does not know before its first loop
cfg_validate_lenient(impl, obj, data, parents) ==
    IF data.k # "dict"
    THEN BuildRaise(TypeError("Can not validate configuration of type", <<>>,
                              data, <<>>, -1), obj, data)
    ELSE LET known == PyDict(SelectSeq(data.v, LAMBDA it : Declared(obj, it[1])))
             first == validate_entries(impl, obj, known, 1, parents)
         IN IF ~first.ok THEN first
            ELSE validate_nested(impl, first.obj, first.inp, 1, parents)

\* a __validate__ that builds the nested configs before it validates the
\* other entries
cfg_validate_nested_first(impl, obj, data, parents) ==
    IF data.k # "dict"
    THEN BuildRaise(TypeError("Can not validate configuration of type", <<>>,
                              data, <<>>, -1), obj, data)
    ELSE LET first == validate_nested(impl, obj, data, 1, parents) IN
         IF ~first.ok THEN first
         ELSE validate_entries(impl, first.obj, first.inp, 1, parents)

\* __validate__
cfg_validate(impl, obj, data, parents) ==
    IF data.k # "dict"
    THEN BuildRaise(TypeError("Can not validate configuration of type", <<>>,
                              data, <<>>, -1), obj, data)
    ELSE LET first == validate_entries(impl, obj, data, 1, parents) IN
         IF ~first.ok THEN first
         ELSE validate_nested(impl, first.obj, first.inp, 1, parents)

\* the parents a constructor works with: <<>> stands for no parents given
parents_of(impl, cls, parents) ==
    IF parents # <<>> THEN parents
    ELSE IF impl = "tcfg" THEN <<cls.name>>
    ELSE IF cls.path # "" THEN <<cls.path>>
    ELSE <<>>

\* cfg.__init__: cls(data, parents, strict=strict), where the file _path_
\* names does not exist, so that data is the raw data of the instance
cfg_new(impl, cls, data, parents, strict) ==
    LET made == tcfg_setup(impl, cls) IN
    IF ~made.ok THEN BuildRaise(made.err, made.obj, data)
    ELSE LET r == cfg_validate(impl, [made.obj EXCEPT !.strict = strict],
                               IF Truthy(data) THEN data ELSE PyDict(<<>>),
                               parents_of(impl, cls, parents))
         IN [r EXCEPT !.inp = IF Truthy(data) THEN r.inp ELSE data]

RECURSIVE assign(_, _, _)
\* obj.a.b = x for the path <<a, b>>: plain attribute assignment
assign(obj, path, x) ==
    IF Len(path) = 1 THEN setattr(obj, path[1], x)
    ELSE setattr(obj, path[1], assign(getattr(obj, path[1]), Tail(path), x))

\* the suffix of a _path_, without its dot
suffix(path) ==
    CASE path = PyStr(<<"nested.json">>) -> "json"
      [] path = PyStr(<<"cfg.yml">>) -> "yml"
      [] path = PyStr(<<"leaf.ini">>) -> "ini"
      [] OTHER -> ""

\* the extensions cfg has a save_<extension> method for
savers == {"json", "toml", "yml", "yaml"}

RECURSIVE save(_, _, _)
RECURSIVE build_save_items(_, _, _, _)
\* the loop of __tcfg_build_save_dict__ from entry i of __tcfg_values__ on.
\* The result is [map, writes]: the items of the mapping and the files
\* written, in order, as <<_path_, mapping>>.  A file in io cannot be opened.
build_save_items(obj, defaults, io, i) ==
    IF i > Len(obj.values) THEN [map |-> <<>>, writes |-> <<>>]
    ELSE
    LET e == obj.values[i]
        cfg_value == getattr(obj, e.key)
        own == IF cfg_value.k = "cfg"
               THEN LET s == save(cfg_value, defaults, io) IN
                    IF s.ok THEN [map |-> <<>>, writes |-> s.writes]
                    ELSE LET result == build_save_items(cfg_value, defaults, io, 1)
                         IN [map |-> IF Len(result.map) > 0
                                     THEN <<<<Key(e.key), PyDict(result.map)>>>>
                                     ELSE <<>>,
                             writes |-> s.writes \o result.writes]
               ELSE [map |-> IF ~PyEq(e.default, cfg_value) \/ defaults
                             THEN <<<<Key(e.key), cfg_value>>>>
                             ELSE <<>>,
                     writes |-> <<>>]
        rest == build_save_items(obj, defaults, io, i + 1)
    IN [map |-> own.map \o rest.map, writes |-> own.writes \o rest.writes]

\* a __tcfg_build_save_dict__ that keeps every field, default or not
tcfg_build_save_dict_all(obj, defaults, io) ==
    LET r == build_save_items(obj, TRUE, io, 1) IN
    [map |-> PyDict(r.map), writes |-> r.writes]

\* __tcfg_build_save_dict__
tcfg_build_save_dict(obj, defaults, io) ==
    LET r == build_save_items(obj, defaults, io, 1) IN
    [map |-> PyDict(r.map), writes |-> r.writes]

\* save: [ok, writes].  pathlib.Path(MISSING) raises when _path_ is not set;
\* a file opened with "+w" is emptied even when no save_<extension> exists
save(obj, defaults, io) ==
    LET save_data == tcfg_build_save_dict(obj, defaults, io) IN
    IF obj.path = MISSING \/ obj.path \in io
    THEN [ok |-> FALSE, writes |-> save_data.writes]
    ELSE IF suffix(obj.path) \notin savers
    THEN [ok |-> FALSE,
          writes |-> Append(save_data.writes, <<obj.path, MISSING>>)]
    ELSE [ok |-> TRUE,
          writes |-> Append(save_data.writes, <<obj.path, save_data.map>>)]

\* a cfg subclass without fields
Empty == ConfigClass("Empty", "", <<>>)

NoInstance == BuildOk(NewObj(Empty), MISSING)
NoSave == [defaults |-> FALSE, io |-> {}, map |-> PyDict(<<>>), writes |-> <<>>]

\* the object tree is not in use
TreeIdle ==
    /\ which = "none"
    /\ root = Empty
    /\ isStrict = TRUE
    /\ raw = None
    /\ inst = NoInstance
    /\ pc = "idle"
    /\ changed = <<>>
    /\ saved = NoSave

----------------------------------------------------------------------------
(* Defaults as objects.  The containers a default is held of live in a     *)
(* heap, the sequence of the objects allocated so far; a cell is a scalar  *)
(* value, a class (a type) or a reference to an object of the heap, and an *)
(* object is the record of its class, its keys (a dict) and its cells.     *)

\* a reference to the object at address a
Ref(a) == [k |-> "ref", v |-> a]

\* a class used as a value, as str in ['x', str]
TypeCell(ty) == [k |-> "type", v |-> ty]

Obj(kind, keys, items) == [k |-> kind, keys |-> keys, items |-> items]

\* the result of an operation that may allocate: the heap it leaves and the
\* cell it returns
Made(h, c) == [h |-> h, c |-> c]

\* kind(items): a new object
Alloc(h, o) == Made(Append(h, o), Ref(Len(h) + 1))

RECURSIVE Deep(_, _)
\* the value a cell stands for, every reference followed
Deep(h, c) ==
    IF c.k # "ref" THEN c
    ELSE LET o == h[c.v] IN
         CASE o.k = "dict" ->
                 PyDict([i \in 1..Len(o.items) |->
                            <<PyStr(<<o.keys[i]>>), Deep(h, o.items[i])>>])
           [] o.k = "tuple" ->
                 PyTuple([i \in 1..Len(o.items) |-> Deep(h, o.items[i])])
           [] OTHER ->
                 PyList([i \in 1..Len(o.items) |-> Deep(h, o.items[i])])

\* setup_default(default) of tcfg/config.py: type(default)(default) for a
\* dict, list, tuple or set, the value itself otherwise
setup_default(h, c) ==
    IF c.k = "ref" THEN Alloc(h, h[c.v]) ELSE Made(h, c)

\* _type.default() of a container type of tcfg/config.py: list(), dict(), ...
container_default(h, kind) == Alloc(h, Obj(kind, <<>>, <<>>))

\* the default __tcfg_setup__ of tcfg/config.py records for a field and sets
\* on the instance (one object for both): the copy setup_default makes of
\* the class attribute, or the default of the type of an annotation
cfg_field_default(h, d) ==
    IF d.kind = "anno" THEN container_default(h, d.type)
    ELSE setup_default(h, d.cell)

\* the items of a list or tuple that are no classes
NoTypes(items) == SelectSeq(items, LAMBDA c : c.k # "type")

\* the positions of the keys of a dict other than "*"
NoWildcard(o) == SelectSeq([i \in 1..Len(o.keys) |-> i], LAMBDA i : o.keys[i] # "*")

RECURSIVE ConfigBase_get_default(_, _)
RECURSIVE ConfigBase_get_default_items(_, _, _)
\* the loop of __get_default__ over the items of the new dict, from item i
\* on: every value is replaced by its __get_default__
ConfigBase_get_default_items(h, items, i) ==
    IF i > Len(items) THEN [h |-> h, items |-> items]
    ELSE LET r == ConfigBase_get_default(h, items[i]) IN
         ConfigBase_get_default_items(r.h, [items EXCEPT ![i] = r.c], i + 1)

\* ConfigBase.__get_default__(value) for a list, a tuple, a dict, a class
\* and any other value
ConfigBase_get_default(h, c) ==
    IF c.k = "type"
    THEN (IF c.v \in {"list", "dict", "tuple"} THEN container_default(h, c.v)
          ELSE Made(h, ZeroOf(c.v)))
    ELSE IF c.k # "ref" THEN Made(h, c)
    ELSE LET o == h[c.v] IN
         IF o.k = "dict"
         THEN LET keep == NoWildcard(o)
                  r == ConfigBase_get_default_items(
                           h, [i \in 1..Len(keep) |-> o.items[keep[i]]], 1)
              IN Alloc(r.h, Obj("dict", [i \in 1..Len(keep) |-> o.keys[keep[i]]],
                                r.items))
         ELSE Alloc(h, Obj(o.k, <<>>, NoTypes(o.items)))

\* the default ConfigBase.__init__ sets on the instance for an attribute:
\* TypesDefault.default, the object the TypesDefault holds, or __get_default__
\* of the class attribute
base_field_default(h, d) ==
    IF d.kind = "TypesDefault" THEN Made(h, d.cell)
    ELSE IF d.kind = "anno" THEN ConfigBase_get_default(h, TypeCell(d.type))
    ELSE ConfigBase_get_default(h, d.cell)

\* the default an instance gets for the field, by implementation
field_default(impl, h, d) ==
    IF impl = "tcfg" THEN cfg_field_default(h, d) ELSE base_field_default(h, d)

RECURSIVE Targets(_, _)
\* the addresses of the objects reachable from a cell
Targets(h, c) ==
    IF c.k # "ref" THEN {}
    ELSE {c.v} \cup UNION {Targets(h, h[c.v].items[i]) : i \in 1..Len(h[c.v].items)}

\* value.append(x) on a list, value["q"] = x on a dict
mutate(h, a, x) ==
    LET o == h[a]
        at == {i \in 1..Len(o.keys) : o.keys[i] = "q"}
    IN IF o.k = "dict" /\ at # {}
       THEN [h EXCEPT ![a] = Obj("dict", o.keys,
                                 [i \in 1..Len(o.items) |->
                                     IF i \in at THEN x ELSE o.items[i]])]
       ELSE IF o.k = "dict"
       THEN [h EXCEPT ![a] = Obj("dict", Append(o.keys, "q"), Append(o.items, x))]
       ELSE [h EXCEPT ![a] = Obj(o.k, <<>>, Append(o.items, x))]

\* a field declaration: kind "plain" (a class attribute, cell), "TypesDefault"
\* (cell: the default the TypesDefault holds) or "anno" (a type only)
Decl(kind, cell, type) == [kind |-> kind, cell |-> cell, type |-> type]

NoDecl == Decl("none", None, "")

NoSnapshot == [cls |-> None, objs |-> <<>>]

HeapIdle ==
    /\ heap = <<>>
    /\ decl = NoDecl
    /\ owner = "none"
    /\ held = <<>>
    /\ hit = <<>>
    /\ before = NoSnapshot

----------------------------------------------------------------------------
(* ConfigBase (config_base.py): a class whose attributes are declared by
   plain class attributes.  An attribute is declared by a value, by a type,
   by a list or tuple of values and types, by Options(...) or by
   TypesDefault(...).  Classes that declare dict attributes or nested
   ConfigBase classes are not built here. *)

\* Options(*options, default=default): options is the set the constructor
\* builds, as a sequence without repetition
Options(options, default) ==
    [k |-> "Options", options |-> options, default |-> default]

\* Options.types: the types of the options
Options_types(attr) == {TypeName(attr.options[i]) : i \in 1..Len(attr.options)}

\* TypesDefault(*types, nested_types=nested_types, default=default);
\* nested_types is a sequence of type names, <<"None">> when not given
TypesDefault(types, nested_types, default) ==
    [k |-> "TypesDefault", types |-> types, nested_types |-> nested_types,
     default |-> default]

\* class name: with the attributes attrs, a sequence of <<var, value>> in the
\* order inspect.getmembers gives them (sorted by name)
BaseClass(name, attrs) == [name |-> name, attrs |-> attrs]

\* _type(val)
type_of(val) == IF val.k = "type" THEN val.v ELSE TypeName(val)

\* _all_types(values), for a list or a tuple
all_types(values) == {type_of(values.v[i]) : i \in 1..Len(values.v)}

\* ConfigBase.__get_default__(value)
ConfigBase_default(declared) ==
    CASE declared.k \in {"TypesDefault", "Options"} -> declared.default
      [] declared.k \in {"list", "tuple"} ->
            [declared EXCEPT !.v = SelectSeq(@, LAMBDA val : val.k # "type")]
      [] declared.k = "type" -> ZeroOf(declared.v)
      [] OTHER -> declared

\* the methods and properties a ConfigBase instance has besides its
\* declared attributes (hasattr is true of them)
BaseMethods == {"as_dict", "save", "keys", "values", "defaults", "init",
                "is_default", "pretty"}

\* the instance as __init__ leaves it before __parse__: attributes is
\* __tedconfig_attributes__, validated is __tedconfig_validated__, attrs the
\* instance attributes that setattr made
BaseObj(cls) ==
    [k |-> "base", cls |-> cls.name, attributes |-> cls.attrs,
     validated |-> <<>>,
     attrs |-> [i \in 1..Len(cls.attrs) |->
                  <<cls.attrs[i][1], ConfigBase_default(cls.attrs[i][2])>>]]

\* the result of a ConfigBase method: obj is the instance as the call left it
BaseOk(obj) == [ok |-> TRUE, obj |-> obj, err |-> NoErr]
BaseRaise(err, obj) == [ok |-> FALSE, obj |-> obj, err |-> err]

\* key in context
InContext(context, key) == \E i \in 1..Len(context) : context[i][1] = key
\* context[key]
Context(context, key) ==
    context[CHOOSE i \in 1..Len(context) : context[i][1] = key][2]

\* key in self.__tedconfig_validated__
IsValidated(obj, key) == \E i \in 1..Len(obj.validated) : obj.validated[i] = key

\* self.__tedconfig_validated__.append(key)
MarkValidated(obj, key) == [obj EXCEPT !.validated = Append(@, key)]

\* _path([*parent, self.__classname__, key])
BasePath(obj, parent, key) == parent \o <<obj.cls, key>>

\* value in attr.options
InOptions(x, attr) == \E i \in 1..Len(attr.options) : PyEq(x, attr.options[i])

\* ConfigBase.__vk_options__
vk_options(obj, key, x, parent, context) ==
    LET attr == Context(context, key) IN
    IF ~\E ty \in Options_types(attr) : IsInstance(x, ty)
    THEN BaseRaise(Err("TypeError", "must be on of these type(s)",
                       BasePath(obj, parent, key), x, <<>>, -1, -1, -1), obj)
    ELSE IF ~InOptions(x, attr)
    THEN BaseRaise(Err("TypeError", "must be one of the following values",
                       BasePath(obj, parent, key), x, attr.options, -1, -1, -1),
                   obj)
    ELSE BaseOk(MarkValidated(obj, key))

\* ConfigBase.__vk_collection__
vk_collection(obj, key, x, parent, context) ==
    LET attr == Context(context, key) IN
    IF ~IsInstance(x, "list")
    THEN BaseRaise(Err("TypeError", "must be a collection containing",
                       BasePath(obj, parent, key), x, <<>>, -1, -1, -1), obj)
    ELSE IF \E i \in 1..Len(x.v) : TypeName(x.v[i]) \notin all_types(attr)
    THEN BaseRaise(Err("TypeError", "contains invalid type(s)",
                       BasePath(obj, parent, key), x, <<>>, -1, -1, -1), obj)
    ELSE BaseOk(obj)

\* ConfigBase.__vk_generic__
vk_generic(obj, key, x, parent, context) ==
    LET attr == type_of(Context(context, key)) IN
    IF ~IsValidated(obj, key) /\ ~IsInstance(x, attr)
    THEN BaseRaise(Err("TypeError", "must be of type",
                       BasePath(obj, parent, key), x, <<attr>>, -1, -1, -1), obj)
    ELSE BaseOk(obj)

\* ConfigBase.__vk_types_default__
vk_types_default(obj, key, x, parent, context) ==
    LET attr == Context(context, key) IN
    IF \A i \in 1..Len(attr.types) : TypeName(x) # attr.types[i]
    THEN BaseRaise(Err("TypeError", "must be one of these types",
                       BasePath(obj, parent, key), x, attr.types, -1, -1, -1),
                   obj)
    ELSE LET marked == MarkValidated(obj, key) IN
         IF /\ IsInstance(x, "list") \/ IsInstance(x, "tuple")
            /\ attr.nested_types # <<"None">>
            /\ \E i \in 1..Len(x.v) :
                  \A j \in 1..Len(attr.nested_types) :
                      TypeName(x.v[i]) # attr.nested_types[j]
         THEN BaseRaise(Err("ValueError", "Values in must be one of these types",
                            BasePath(obj, parent, key), x, attr.nested_types,
                            -1, -1, -1), marked)
         ELSE BaseOk(MarkValidated(marked, key))

\* ConfigBase.__validate__(key, value), with __vk_in_object__
ConfigBase_validate(obj, key, x) ==
    LET parent == <<obj.cls>>
        context == obj.attributes
    IN IF ~InContext(context, key)
       THEN BaseRaise(Err("ValueError", "Invalid variable",
                          parent \o <<obj.cls>>, Key(key), <<>>, -1, -1, -1), obj)
       ELSE LET attr == Context(context, key) IN
            CASE attr.k = "Options" -> vk_options(obj, key, x, parent, context)
              [] attr.k \in {"list", "tuple"} ->
                    vk_collection(obj, key, x, parent, context)
              [] attr.k = "TypesDefault" ->
                    vk_types_default(obj, key, x, parent, context)
              [] OTHER -> vk_generic(obj, key, x, parent, context)

RECURSIVE ConfigBase_parse(_, _, _)
\* ConfigBase.__parse__: the items of the mapping cfg from item i on
ConfigBase_parse(obj, cfg, i) ==
    IF i > Len(cfg.v) THEN BaseOk(obj)
    ELSE LET key == cfg.v[i][1].v[1]
             r == ConfigBase_validate(obj, key, cfg.v[i][2])
         IN IF ~r.ok THEN r
            ELSE ConfigBase_parse(
                     setattr(MarkValidated(r.obj, key), key, cfg.v[i][2]),
                     cfg, i + 1)

\* ConfigBase.__init__(cls, cfg), for cfg a dict or None
ConfigBase_init(cls, cfg) ==
    IF cfg = None THEN BaseOk(BaseObj(cls))
    ELSE ConfigBase_parse(BaseObj(cls), cfg, 1)

\* hasattr(self, name), for an instance of ConfigBase
base_hasattr(obj, name) == hasattr(obj, name) \/ name \in BaseMethods

\* ConfigBase.__setitem__(name, value)
ConfigBase_setitem(obj, name, x) ==
    IF ~base_hasattr(obj, name)
    THEN BaseRaise(Err("IndexError", "is not a valid attribute", <<name>>, x,
                       <<>>, -1, -1, -1), obj)
    ELSE LET r == ConfigBase_validate(obj, name, x) IN
         IF ~r.ok THEN r ELSE BaseOk(setattr(r.obj, name, x))

\* ConfigBase.__delitem__(name)
ConfigBase_delitem(obj, name) ==
    IF ~base_hasattr(obj, name)
    THEN BaseRaise(Err("IndexError", "is not a valid index", <<name>>, None,
                       <<>>, -1, -1, -1), obj)
    ELSE BaseOk(setattr(obj, name, None))

\* ConfigBase.as_dict()
ConfigBase_as_dict(obj) ==
    PyDict([i \in 1..Len(obj.attributes) |->
              LET key == obj.attributes[i][1] IN
              <<Key(key),
                IF ~IsValidated(obj, key)
                THEN ConfigBase_default(obj.attributes[i][2])
                ELSE getattr(obj, key)>>])

\* ConfigBase.__default__(key)
ConfigBase__default__(obj, key) ==
    LET attr == getattr(obj, key)
        declared == Context(obj.attributes, key)
    IN \/ declared.k = "Options" /\ PyEq(attr, declared.default)
       \/ declared.k = "type" /\ PyEq(ZeroOf(declared.v), attr)
       \/ declared.k \notin {"Options", "TypesDefault", "type"}
             /\ PyEq(attr, declared)
       \/ PyEq(ConfigBase_default(declared), attr)

\* ConfigBase.is_default(key), for a declared key
ConfigBase_is_default(obj, key) == ConfigBase__default__(obj, key)

RECURSIVE ConfigBase_build_save_dict(_, _, _)
\* ConfigBase.__build_save_dict__(override, save_defaults) from attribute i
\* on: the instance as the call leaves it and the items of the mapping
ConfigBase_build_save_dict(obj, save_defaults, i) ==
    IF i > Len(obj.attributes) THEN [obj |-> obj, items |-> <<>>]
    ELSE LET key == obj.attributes[i][1]
             fresh == ~IsValidated(obj, key) /\ ConfigBase_is_default(obj, key)
             marked == IF fresh THEN MarkValidated(obj, key) ELSE obj
             x == IF fresh THEN ConfigBase_default(obj.attributes[i][2])
                  ELSE getattr(obj, key)
             rest == ConfigBase_build_save_dict(marked, save_defaults, i + 1)
         IN [obj |-> rest.obj,
             items |-> (IF ~ConfigBase_is_default(obj, key) \/ save_defaults
                        THEN <<<<Key(key), x>>>> ELSE <<>>) \o rest.items]

\* no instance yet
NoBase == [ok |-> FALSE, obj |-> None, err |-> NoErr]
\* no assignment, deletion or save yet
NoSet == [op |-> "none", key |-> "", val |-> None, ok |-> FALSE, err |-> NoErr]

BaseIdle ==
    /\ baseCls = BaseClass("none", <<>>)
    /\ baseCfg = None
    /\ base = NoBase
    /\ basePc = "idle"
    /\ lastSet = NoSet
    /\ asDict = None
    /\ nSet = 0

----------------------------------------------------------------------------
(* Rendering a ConfigTypeError (type_check/exceptions.py).  A string is a
   sequence of pieces of text; parents is the list of frames <<type, idx>>,
   idx = -1 for None. *)

RECURSIVE Join(_, _)
\* sep.join(parts)
Join(parts, sep) ==
    IF parts = <<>> THEN <<>>
    ELSE IF Len(parts) = 1 THEN parts[1]
    ELSE parts[1] \o sep \o Join(Tail(parts), sep)

\* _type.__args__ of a subscripted type or a union
TypeArgs(type) ==
    CASE type.t \in {"list", "set"} -> <<type.item>>
      [] type.t = "tuple" -> type.items
      [] type.t = "dict" -> <<type.key, type.val>>
      [] type.t = "union" -> type.types

RECURSIVE type_str(_)
\* type_str(_type): the name of a class, str() of anything else
type_str(type) ==
    CASE type.t = "type" -> <<type.ty>>
      [] type.t = "union" ->
            Join([i \in 1..Len(type.types) |-> type_str(type.types[i])], <<" | ">>)
      [] OTHER ->
            <<type.t, "[">>
            \o Join([i \in 1..Len(TypeArgs(type)) |-> type_str(TypeArgs(type)[i])],
                    <<", ">>)
            \o <<"]">>

\* ERROR.format(text)
ERROR(text) == <<"\\x1b[4;31m">> \o text \o <<"\\x1b[39;24m">>

\* _format_type_pairs_(_type): name, opening, closing, separator
format_type_pairs(type) ==
    CASE type.t = "union" -> <<<<>>, <<>>, <<>>, <<" | ">>>>
      [] type.t = "type" -> <<<<>>, <<>>, <<>>, <<>>>>
      [] OTHER -> <<<<type.t>>, <<"[">>, <<"]">>, <<", ">>>>

\* _format_full_(_type)
format_full(type) ==
    CASE type.t = "union" ->
            ERROR(Join([i \in 1..Len(type.types) |-> type_str(type.types[i])],
                       <<" | ">>))
      [] type.t = "type" -> ERROR(type_str(type))
      [] OTHER ->
            ERROR(<<type.t>>) \o <<"[">>
            \o Join([i \in 1..Len(TypeArgs(type)) |-> type_str(TypeArgs(type)[i])],
                    <<", ">>)
            \o <<"]">>

\* the frame of the problem as _type_error_ writes it
format_problem(problem, idx) ==
    IF idx = -1 THEN format_full(problem)
    ELSE LET pairs == format_type_pairs(problem) IN
         pairs[1] \o pairs[2]
         \o Join([i \in 1..Len(TypeArgs(problem)) |->
                    IF i - 1 # idx THEN type_str(TypeArgs(problem)[i])
                    ELSE ERROR(type_str(TypeArgs(problem)[i]))], pairs[4])
         \o pairs[3]

RECURSIVE format_parents(_, _, _)
\* the for loop of _type_error_ over the reversed parents from frame i on
format_parents(parents, i, message) ==
    IF i > Len(parents) THEN message
    ELSE LET parent == parents[i][1]
             idx == parents[i][2]
             pairs == format_type_pairs(parent)
             args == Join([j \in 1..Len(TypeArgs(parent)) |->
                             IF j - 1 # idx THEN type_str(TypeArgs(parent)[j])
                             ELSE message], pairs[4])
         IN format_parents(parents, i + 1, pairs[1] \o pairs[2] \o args \o pairs[3])

\* list.reverse()
Reversed(s) == [i \in 1..Len(s) |-> s[Len(s) + 1 - i]]

\* _type_error_(_parents_): the message, and the list _parents_ as the call
\* leaves it (its last frame popped, the others reversed in place)
type_error(parents) ==
    IF parents = <<>> THEN [message |-> <<>>, parents |-> parents]
    ELSE LET last == parents[Len(parents)]
             rest == Reversed(SubSeq(parents, 1, Len(parents) - 1))
         IN [message |-> format_parents(rest, 1, format_problem(last[1], last[2])),
             parents |-> rest]

\* ConfigTypeError(parents, message)
NewConfigTypeError(parents, message) == [parents |-> parents, message |-> message]

\* ConfigTypeError.__str__: the string, and the error as the call leaves it
ConfigTypeError_str(err) ==
    LET r == type_error(err.parents) IN
    [text |-> <<"\\x1b[1m">> \o r.message \o <<"\\x1b[22m\n  ", err.message>>,
     err |-> [err EXCEPT !.parents = r.parents]]

ErrorIdle ==
    /\ thrown = NewConfigTypeError(<<>>, "")
    /\ cte = NewConfigTypeError(<<>>, "")
    /\ shown = <<>>

----------------------------------------------------------------------------
(* tcfg/type_check/base.py: the path type of the type checker *)

\* PathType.create(value) for MISSING or a str value: str(value) of a str is
\* the string itself
PathType_create(x) ==
    IF x = MISSING THEN PyStr(<<".">>)
    ELSE PyStr(ReplaceDoubleSlash(ReplaceBackslash(x.v)))

PathIdle ==
    /\ given = <<>>
    /\ normalizer = ""
    /\ normalized = <<>>

----------------------------------------------------------------------------
(* The validation engine as a state machine: one schema node and one value *)
(* are drawn, and one of the validators is applied to them.                *)

\* the sequences over S of length 0..n
SeqsUpTo(S, n) == UNION {[1..m -> S] : m \in 0..n}

\* the str of the characters s
S(s) == PyStr(s)

\* scalar values, as a configuration file holds them
ScalarValues ==
    {PyInt(0), PyInt(1), PyInt(2), PyBool(TRUE), None,
     S(<<>>), S(<<"a">>), S(<<"/", "h", "/">>), S(<<"\\", "h">>)}

\* the items the enumerated lists are made of
ItemValues == {PyInt(1), PyInt(2), S(<<"a">>), PyBool(TRUE)}

\* lists of lists, a list in a dict, a dict in a list
NestedValues ==
    {PyList(<<PyList(<<PyInt(1)>>), PyList(<<S(<<"a">>)>>)>>),
     PyList(<<PyList(<<PyInt(1)>>), PyList(<<PyInt(2)>>)>>),
     PyDict(<<>>),
     PyDict(<<<<S(<<"a">>), PyInt(1)>>>>),
     PyDict(<<<<S(<<"a">>), PyInt(1)>>, <<S(<<"b">>), S(<<"a">>)>>>>),
     PyDict(<<<<PyInt(1), PyInt(1)>>>>),
     PyList(<<PyDict(<<<<S(<<"a">>), PyDict(<<>>)>>>>)>>),
     PyTuple(<<PyInt(1), PyInt(2)>>)}

\* the values handed to a validator; MISSING stands for "no value"
Values ==
    {MISSING} \cup ScalarValues \cup NestedValues
    \cup {PyList(s) : s \in SeqsUpTo(ItemValues, MaxLen)}

\* plain classes
ScalarNodes == {TType("int"), TType("str"), TType("bool"), TType("Path")}

\* the element types of the enumerated containers
ItemNodes == {TType("int"), TType("str")}

\* tuple[...] of every arity up to MaxArity
TupleNodes == {TTuple(s) : s \in SeqsUpTo(ItemNodes, MaxArity)}

ContainerNodes ==
    {TList(n) : n \in ItemNodes \cup {TType("Path")}}
    \cup {TSet(n) : n \in ItemNodes}
    \cup {TDict(TType("str"), n) : n \in ItemNodes}
    \cup {TList(TList(TType("int"))), TList(TTuple(<<TType("int")>>)),
          TList(TUnion(<<TType("str"), TDict(TType("str"), TType("dict"))>>))}

LiteralNodes ==
    {TLiteral(<<S(<<"/", "h", "/">>), S(<<"a">>)>>),
     TLiteral(<<PyInt(1), S(<<"a">>)>>),
     TLiteral(<<PyInt(2)>>)}

\* the members of the enumerated unions
MemberNodes ==
    {TType("int"), TType("str"), TType("bool"), TType("Path"), TType("list"),
     TList(TType("int")), TList(TType("str")),
     TTuple(<<TType("int"), TType("int")>>),
     TList(TList(TType("int"))), TList(TTuple(<<TType("int")>>)),
     TLiteral(<<PyInt(1), S(<<"a">>)>>)}

UnionNodes == {TUnion(<<a, b>>) : a, b \in MemberNodes}

\* the bound arguments of the enumerated custom types
ArgValues == {PyInt(0), PyInt(1), PyInt(2), S(<<"a">>)}

\* the bound arguments of the enumerated PathType[...]
PathArgValues == {PyBool(TRUE), PyInt(1), S(<<"a">>)}

CustomNodes ==
    {TCustom(name, args) :
        name \in {"GreaterThan", "LessThan", "Const", "Anno", "Bare"},
        args \in SeqsUpTo(ArgValues, 1)}
    \cup {TCustom(name, args) : name \in {"Range", "Between"},
                                args \in SeqsUpTo(ArgValues, 2)}
    \cup {TCustom("PathType", args) : args \in SeqsUpTo(PathArgValues, 3)}

\* the nodes tcfg/config.py validates
CFGNodes ==
    ScalarNodes \cup TupleNodes \cup ContainerNodes \cup LiteralNodes \cup UnionNodes

\* the type hints type_check takes
TCNodes ==
    CFGNodes \cup {TOptional(n) : n \in ItemNodes \cup {TList(TType("int"))}}

Nodes == TCNodes \cup CustomNodes

\* the location the caller passes to a validator of config.py
Parents == <<"Config", "key">>

\* the location the caller passes to ct_validate: the custom type is the
\* first argument of a list[...]
CtParents == <<<<TType("list"), 0>>>>

NoResult == Ok(None, None)

Init ==
    /\ node \in Nodes
    /\ value \in Values
    /\ engine = "none"
    /\ op = "none"
    /\ out = NoResult
    /\ TreeIdle
    /\ HeapIdle
    /\ BaseIdle
    /\ ErrorIdle
    /\ PathIdle

\* _type.validate(value, parents) on a present value (config.py)
Validate ==
    /\ op = "none"
    /\ node \in CFGNodes
    /\ value # MISSING
    /\ engine' = "cfg"
    /\ op' = "validate"
    /\ out' = CFG_validate(node, value, Parents)
    /\ UNCHANGED <<node, value>>
    /\ UNCHANGED <<treeVars, heapVars, baseVars, errorVars, pathVars>>

\* _type.default() (config.py)
Default ==
    /\ op = "none"
    /\ node \in CFGNodes
    /\ value = MISSING
    /\ engine' = "cfg"
    /\ op' = "default"
    /\ out' = CFG_default(node)
    /\ UNCHANGED <<node, value>>
    /\ UNCHANGED <<treeVars, heapVars, baseVars, errorVars, pathVars>>

\* type_check(_type, value); the value MISSING asks for the default
TypeCheck ==
    /\ op = "none"
    /\ node \in TCNodes
    /\ engine' = "tc"
    /\ op' = IF value = MISSING THEN "default" ELSE "validate"
    /\ out' = type_check(node, value, <<>>)
    /\ UNCHANGED <<node, value>>
    /\ UNCHANGED <<treeVars, heapVars, baseVars, errorVars, pathVars>>

\* ct_validate(ct, value); the value MISSING asks for the default
CtValidate ==
    /\ op = "none"
    /\ node \in CustomNodes
    /\ engine' = "ct"
    /\ op' = IF value = MISSING THEN "default" ELSE "validate"
    /\ out' = ct_validate(node, value, CtParents)
    /\ UNCHANGED <<node, value>>
    /\ UNCHANGED <<treeVars, heapVars, baseVars, errorVars, pathVars>>

\* the default a validator produced is validated against the same node
Revalidate ==
    /\ op = "default"
    /\ out.ok
    /\ value' = out.val
    /\ op' = "revalidate"
    /\ out' = CASE engine = "cfg" -> CFG_validate(node, out.val, Parents)
                [] engine = "tc" -> type_check(node, out.val, <<>>)
                [] engine = "ct" -> ct_validate(node, out.val, CtParents)
    /\ UNCHANGED <<node, engine>>
    /\ UNCHANGED <<treeVars, heapVars, baseVars, errorVars, pathVars>>

Next == Validate \/ Default \/ TypeCheck \/ CtValidate \/ Revalidate

Spec == Init /\ [][Next]_vars

----------------------------------------------------------------------------
(* The object tree as a state machine: a config class and raw data are     *)
(* drawn, the class is built from the data, fields of the instance are     *)
(* assigned and its save mapping is built.                                 *)

\* class Nested(cfg) of examples/inherit.py, with _path_ = path
Nested(path) ==
    ConfigClass("Nested", path, <<Field("port", TType("int"), PyInt(8081))>>)

\* class Config(cfg): unique: str; nested: Nested
Config(path, nested_path) ==
    ConfigClass("Config", path,
                <<Field("unique", TType("str"), MISSING),
                  Field("nested", TCfg(Nested(nested_path)), MISSING)>>)

\* class Config(cfg) of examples/inherit.py with all its fields: random is a
\* class attribute, the other fields are annotations only
Example ==
    ConfigClass("Config", "cfg.yml",
                <<Field("random", TType("str"), PathObj(<<"random", "/", "dir">>)),
                  Field("unique", TType("str"), MISSING),
                  Field("nested", TCfg(Nested("nested.json")), MISSING),
                  Field("extensions",
                        TList(TUnion(<<TType("str"),
                                       TDict(TType("str"), TType("dict"))>>)),
                        MISSING),
                  Field("path",
                        TLiteral(<<PyStr(<<"/", "home", "/">>),
                                   PyStr(<<"/", "home", "/", "documents">>)>>),
                        MISSING)>>)

\* three levels: class Leaf(cfg): extra: str; class Mid(cfg): level = 1;
\* leaf: Leaf; class Top(cfg): tags: list[str]; mid: Mid
Leaf(path) == ConfigClass("Leaf", path, <<Field("extra", TType("str"), MISSING)>>)
Mid(leaf_path) ==
    ConfigClass("Mid", "",
                <<Field("level", NoAnno, PyInt(1)),
                  Field("leaf", TCfg(Leaf(leaf_path)), MISSING)>>)
Top(leaf_path) ==
    ConfigClass("Top", "",
                <<Field("tags", TList(TType("str")), MISSING),
                  Field("mid", TCfg(Mid(leaf_path)), MISSING)>>)

\* a class holding a cfg subclass without fields
Holder ==
    ConfigClass("Holder", "",
                <<Field("flag", NoAnno, PyBool(FALSE)),
                  Field("empty", TCfg(Empty), MISSING)>>)

\* a class with a union-typed field that declares no value
Either ==
    ConfigClass("Either", "",
                <<Field("id", TUnion(<<TType("int"), TType("str")>>), MISSING)>>)

Classes ==
    {Config("", ""), Config("", "nested.json"), Config("cfg.yml", "nested.json"),
     Example, Top(""), Top("leaf.ini"), Holder, Either}

\* the entries raw data is made of
Entries ==
    {<<Key("unique"), PyStr(<<"abc">>)>>, <<Key("unique"), PyInt(1)>>,
     <<Key("typo"), PyInt(1)>>,
     <<Key("nested"), PyDict(<<>>)>>,
     <<Key("nested"), PyDict(<<<<Key("port"), PyInt(1)>>>>)>>,
     <<Key("nested"), PyDict(<<<<Key("port"), PyStr(<<"a">>)>>>>)>>,
     <<Key("nested"), PyDict(<<<<Key("typo"), PyInt(1)>>>>)>>,
     <<Key("nested"), PyList(<<>>)>>, <<Key("nested"), PyInt(0)>>,
     <<Key("nested"), PyStr(<<>>)>>, <<Key("nested"), None>>,
     <<Key("nested"), PyList(<<PyInt(1)>>)>>, <<Key("nested"), PyStr(<<"a">>)>>,
     <<Key("random"), PyStr(<<"\\", "x", "/">>)>>,
     <<Key("path"), PyStr(<<"/", "home", "/">>)>>,
     <<Key("path"), PyStr(<<"/", "home", "/", "docs">>)>>,
     <<Key("extensions"),
       PyList(<<PyStr(<<"a">>),
                PyDict(<<<<Key("k"), PyDict(<<>>)>>>>)>>)>>,
     <<Key("tags"), PyList(<<PyStr(<<"a">>)>>)>>,
     <<Key("tags"), PyList(<<PyInt(1)>>)>>,
     <<Key("mid"), PyDict(<<<<Key("level"), PyInt(2)>>>>)>>,
     <<Key("mid"),
       PyDict(<<<<Key("leaf"),
                  PyDict(<<<<Key("extra"), PyStr(<<"x">>)>>>>)>>>>)>>,
     <<Key("mid"), PyDict(<<<<Key("leaf"), PyList(<<>>)>>>>)>>,
     <<Key("mid"),
       PyDict(<<<<Key("leaf"), PyDict(<<<<Key("typo"), PyInt(1)>>>>)>>>>)>>,
     <<Key("flag"), PyBool(TRUE)>>, <<Key("flag"), PyInt(0)>>,
     <<Key("empty"), PyDict(<<>>)>>,
     <<Key("id"), PyInt(1)>>}

\* most keys of an enumerated raw mapping
MaxKeys == 2
\* most assignments made to the fields of an instance
MaxAssign == 1

\* the entries that name a field of cls, and the entry of the key "typo"
EntriesFor(cls) ==
    {e \in Entries : \/ e[1] = Key("typo")
                     \/ \E i \in 1..Len(cls.fields) : Key(cls.fields[i].key) = e[1]}

\* the data a constructor is called with: no data, mappings of distinct keys,
\* and values that are no mapping
DataFor(cls) ==
    {None, PyList(<<>>), PyList(<<PyInt(1)>>), PyInt(0), PyStr(<<"a">>)}
    \cup {PyDict(s) : s \in {t \in SeqsUpTo(EntriesFor(cls), MaxKeys) :
                               \A i, j \in 1..Len(t) : i # j => t[i][1] # t[j][1]}}

RECURSIVE FieldPaths(_)
\* the attribute paths of the fields of an instance that hold no instance
FieldPaths(obj) ==
    UNION {IF getattr(obj, obj.values[i].key).k = "cfg"
           THEN {<<obj.values[i].key>> \o p :
                    p \in FieldPaths(getattr(obj, obj.values[i].key))}
           ELSE {<<obj.values[i].key>>} : i \in 1..Len(obj.values)}

\* the values assigned to a field
AssignValues ==
    {PyInt(1), PyInt(8081), PyStr(<<"abc">>), PyStr(<<>>), PyBool(TRUE),
     PyList(<<PyStr(<<"a">>)>>)}

RECURSIVE FilesOf(_)
\* the _path_ of every config nested in an instance
FilesOf(obj) ==
    UNION {LET x == getattr(obj, obj.values[i].key) IN
           IF x.k # "cfg" THEN {}
           ELSE (IF x.path = MISSING THEN {} ELSE {x.path}) \cup FilesOf(x) :
           i \in 1..Len(obj.values)}

\* the validation engine is not in use
EngineIdle ==
    /\ engine = "none"
    /\ node = TType("int")
    /\ value = MISSING
    /\ out = NoResult
    /\ op = "idle"

TreeInit ==
    /\ EngineIdle
    /\ HeapIdle
    /\ BaseIdle
    /\ ErrorIdle
    /\ PathIdle
    /\ which \in {"tcfg", "playground"}
    /\ root \in Classes
    /\ isStrict \in BOOLEAN
    /\ raw \in DataFor(root)
    /\ inst = NoInstance
    /\ pc = "new"
    /\ changed = <<>>
    /\ saved = NoSave

\* root(data, strict=strict)
Build ==
    /\ pc = "new"
    /\ inst' = cfg_new(which, root, raw, <<>>, isStrict)
    /\ pc' = IF inst'.ok THEN "built" ELSE "failed"
    /\ UNCHANGED <<which, root, isStrict, raw, changed, saved>>
    /\ UNCHANGED <<engineVars, heapVars, baseVars, errorVars, pathVars>>

\* config.a.b = x on the instance built
Assign ==
    /\ pc = "built"
    /\ Len(changed) < MaxAssign
    /\ \E path \in FieldPaths(inst.obj), x \in AssignValues :
          /\ inst' = [inst EXCEPT !.obj = assign(@, path, x)]
          /\ changed' = Append(changed, <<path, x>>)
    /\ UNCHANGED <<which, root, isStrict, raw, pc, saved>>
    /\ UNCHANGED <<engineVars, heapVars, baseVars, errorVars, pathVars>>

\* config.__tcfg_build_save_dict__(defaults), with the files io not writable
Save ==
    /\ pc = "built"
    /\ \E defaults \in BOOLEAN, io \in SUBSET FilesOf(inst.obj) :
          saved' = [defaults |-> defaults, io |-> io,
                    map |-> tcfg_build_save_dict(inst.obj, defaults, io).map,
                    writes |-> tcfg_build_save_dict(inst.obj, defaults, io).writes]
    /\ pc' = "saved"
    /\ UNCHANGED <<which, root, isStrict, raw, inst, changed>>
    /\ UNCHANGED <<engineVars, heapVars, baseVars, errorVars, pathVars>>

TreeNext == Build \/ Assign \/ Save

SpecTree == TreeInit /\ [][TreeNext]_vars

----------------------------------------------------------------------------
(* Default production as a state machine: a class with one container field *)
(* is declared, instances of it are built and the containers an instance    *)
(* holds are mutated in place.                                              *)

\* the instances built
MaxInstances == 2

\* the mutations held
MaxMutations == 2

\* the declarations of the field, each with the heap its class leaves:
\*   tags = ['x'];  tags = ['x', str];  deep = [['x']];  tbl = {'k': ['v']};
\*   m = {'n': {'i': ['w']}, '*': str};  tup = (['x'],)
PlainShapes ==
    {[h |-> <<Obj("list", <<>>, <<S(<<"x">>)>>)>>, d |-> Decl("plain", Ref(1), "")],
     [h |-> <<Obj("list", <<>>, <<S(<<"x">>), TypeCell("str")>>)>>,
      d |-> Decl("plain", Ref(1), "")],
     [h |-> <<Obj("list", <<>>, <<Ref(2)>>), Obj("list", <<>>, <<S(<<"x">>)>>)>>,
      d |-> Decl("plain", Ref(1), "")],
     [h |-> <<Obj("dict", <<"k">>, <<Ref(2)>>), Obj("list", <<>>, <<S(<<"v">>)>>)>>,
      d |-> Decl("plain", Ref(1), "")],
     [h |-> <<Obj("dict", <<"n", "*">>, <<Ref(2), TypeCell("str")>>),
              Obj("dict", <<"i">>, <<Ref(3)>>),
              Obj("list", <<>>, <<S(<<"w">>)>>)>>,
      d |-> Decl("plain", Ref(1), "")],
     [h |-> <<Obj("tuple", <<>>, <<Ref(2)>>), Obj("list", <<>>, <<S(<<"x">>)>>)>>,
      d |-> Decl("plain", Ref(1), "")]}

\* names: list[str] (tcfg/config.py), names = list (ConfigBase); the same for dict
AnnoShapes == {[h |-> <<>>, d |-> Decl("anno", None, ty)] : ty \in {"list", "dict"}}

\* t = TypesDefault(list, default=['d']), which holds list(default)
TypesDefaultShapes ==
    {[h |-> <<Obj("list", <<>>, <<S(<<"d">>)>>)>>, d |-> Decl("TypesDefault", Ref(1), "")]}

Shapes(impl) ==
    PlainShapes \cup AnnoShapes \cup (IF impl = "base" THEN TypesDefaultShapes ELSE {})

\* the values appended
Appended == {S(<<"q">>), PyInt(1)}

HeapInit ==
    /\ owner \in {"tcfg", "base"}
    /\ \E s \in Shapes(owner) : heap = s.h /\ decl = s.d
    /\ held = <<>>
    /\ hit = <<>>
    /\ before = NoSnapshot
    /\ EngineIdle
    /\ TreeIdle
    /\ BaseIdle
    /\ ErrorIdle
    /\ PathIdle

\* the value of the class attribute (of the default a TypesDefault holds)
ClassDefault(h) == IF decl.kind = "anno" THEN None ELSE Deep(h, decl.cell)

\* Config(): the field of the new instance gets its default
New ==
    /\ Len(held) < MaxInstances
    /\ LET r == field_default(owner, heap, decl) IN
           /\ heap' = r.h
           /\ held' = Append(held, r.c)
    /\ UNCHANGED <<decl, owner, hit, before>>
    /\ UNCHANGED <<engineVars, treeVars, baseVars, errorVars, pathVars>>

\* a list or dict that instance i holds in the field, at any depth, is
\* mutated in place
Mutate ==
    /\ Len(hit) < MaxMutations
    /\ \E i \in 1..Len(held), x \in Appended :
          \E a \in Targets(heap, held[i]) :
              /\ heap[a].k \in {"list", "dict"}
              /\ before' = [cls |-> ClassDefault(heap),
                            objs |-> [j \in 1..Len(held) |-> Deep(heap, held[j])]]
              /\ heap' = mutate(heap, a, x)
              /\ hit' = Append(hit, i)
    /\ UNCHANGED <<decl, owner, held>>
    /\ UNCHANGED <<engineVars, treeVars, baseVars, errorVars, pathVars>>

HeapNext == New \/ Mutate

SpecHeap == HeapInit /\ [][HeapNext]_vars

----------------------------------------------------------------------------
(* ConfigBase as a state machine: a class is instantiated with a mapping or
   with nothing, items are assigned and deleted, and as_dict() is read. *)

\* class App: day = Options("mon", "tue", 3, default="mon"); exts = [str];
\*            flag = False; port = int; size = TypesDefault(int, str, default=1)
\* class Job: lvl = Options(1, "a", default=1);
\*            on = Options(True, "a", default="a");
\*            tags = TypesDefault(list, nested_types=[str], default=["x"])
BaseClasses ==
    {BaseClass("app",
        <<<<"day", Options(<<S(<<"mon">>), S(<<"tue">>), PyInt(3)>>, S(<<"mon">>))>>,
          <<"exts", PyList(<<TypeCell("str")>>)>>,
          <<"flag", PyBool(FALSE)>>,
          <<"port", TypeCell("int")>>,
          <<"size", TypesDefault(<<"int", "str">>, <<"None">>, PyInt(1))>>>>),
     BaseClass("job",
        <<<<"lvl", Options(<<PyInt(1), S(<<"a">>)>>, PyInt(1))>>,
          <<"on", Options(<<PyBool(TRUE), S(<<"a">>)>>, S(<<"a">>))>>,
          <<"tags", TypesDefault(<<"list">>, <<"str">>, PyList(<<S(<<"x">>)>>))>>>>)}

\* the names items are read and assigned by: the declared attributes, a
\* method and a name the instance does not have
BaseNames(cls) == {cls.attrs[i][1] : i \in 1..Len(cls.attrs)} \cup {"save", "typo"}

\* the values assigned
BaseValues ==
    {PyBool(TRUE), PyInt(1), PyInt(3), PyInt(4), S(<<"mon">>), S(<<"wed">>),
     S(<<"a">>), PyList(<<S(<<"x">>)>>), PyList(<<PyInt(1)>>)}

\* the cfg argument of the constructor: nothing, or a mapping of at most one
\* key, or one of two keys
BaseData(cls) ==
    {None, PyDict(<<>>),
     PyDict(<<<<Key("port"), PyInt(3)>>, <<Key("flag"), PyBool(TRUE)>>>>),
     PyDict(<<<<Key("lvl"), S(<<"a">>)>>, <<Key("on"), PyInt(1)>>>>)}
    \cup {PyDict(<<<<Key(n), x>>>>) : n \in BaseNames(cls), x \in BaseValues}

BaseStart ==
    /\ baseCls \in BaseClasses
    /\ baseCfg \in BaseData(baseCls)
    /\ base = NoBase
    /\ basePc = "new"
    /\ lastSet = NoSet
    /\ asDict = None
    /\ nSet = 0
    /\ EngineIdle
    /\ TreeIdle
    /\ HeapIdle
    /\ ErrorIdle
    /\ PathIdle

\* cfg = Cls(cfg)
Construct ==
    /\ basePc = "new"
    /\ base' = ConfigBase_init(baseCls, baseCfg)
    /\ basePc' = IF base'.ok THEN "built" ELSE "failed"
    /\ UNCHANGED <<baseCls, baseCfg, lastSet, asDict, nSet>>
    /\ UNCHANGED <<engineVars, treeVars, heapVars, errorVars, pathVars>>

\* cfg[name] = x
SetItem ==
    /\ basePc \in {"built", "read"}
    /\ nSet < MaxAssign
    /\ \E name \in BaseNames(baseCls), x \in BaseValues :
          LET r == ConfigBase_setitem(base.obj, name, x) IN
              /\ base' = [base EXCEPT !.obj = r.obj]
              /\ lastSet' = [op |-> "set", key |-> name, val |-> x,
                             ok |-> r.ok, err |-> r.err]
    /\ basePc' = "built"
    /\ nSet' = nSet + 1
    /\ UNCHANGED <<baseCls, baseCfg, asDict>>
    /\ UNCHANGED <<engineVars, treeVars, heapVars, errorVars, pathVars>>

\* del cfg[name]
DelItem ==
    /\ basePc \in {"built", "read"}
    /\ nSet < MaxAssign
    /\ \E name \in BaseNames(baseCls) :
          LET r == ConfigBase_delitem(base.obj, name) IN
              /\ base' = [base EXCEPT !.obj = r.obj]
              /\ lastSet' = [op |-> "del", key |-> name, val |-> None,
                             ok |-> r.ok, err |-> r.err]
    /\ basePc' = "built"
    /\ nSet' = nSet + 1
    /\ UNCHANGED <<baseCls, baseCfg, asDict>>
    /\ UNCHANGED <<engineVars, treeVars, heapVars, errorVars, pathVars>>

\* cfg.as_dict()
AsDict ==
    /\ basePc = "built"
    /\ asDict' = ConfigBase_as_dict(base.obj)
    /\ basePc' = "read"
    /\ UNCHANGED <<baseCls, baseCfg, base, lastSet, nSet>>
    /\ UNCHANGED <<engineVars, treeVars, heapVars, errorVars, pathVars>>

\* cfg.__build_save_dict__(False, defaults), as cfg.save(file) calls it
BaseSave ==
    /\ basePc \in {"built", "read"}
    /\ \E defaults \in BOOLEAN :
          LET r == ConfigBase_build_save_dict(base.obj, defaults, 1) IN
              /\ base' = [base EXCEPT !.obj = r.obj]
              /\ lastSet' = [op |-> "save", key |-> "", val |-> PyDict(r.items),
                             ok |-> TRUE, err |-> NoErr]
    /\ basePc' = "built"
    /\ UNCHANGED <<baseCls, baseCfg, asDict, nSet>>
    /\ UNCHANGED <<engineVars, treeVars, heapVars, errorVars, pathVars>>

BaseNext == Construct \/ SetItem \/ DelItem \/ AsDict \/ BaseSave

SpecBase == BaseStart /\ [][BaseNext]_vars

----------------------------------------------------------------------------
(* A ConfigTypeError is raised and rendered, once or more. *)

\* most frames of an error
MaxFrames == 2
\* most renderings of one error
MaxRenders == 2

\* the types of the frames
FrameTypes ==
    {TList(TType("int")), TList(TList(TType("int"))),
     TTuple(<<TType("int"), TType("str")>>), TDict(TType("str"), TType("int")),
     TUnion(<<TType("int"), TType("str")>>)}

\* the frames type_check records: a subscripted type or a union with the
\* position of one of its arguments or None, a class with None
OuterFrames ==
    {<<type, idx>> : type \in FrameTypes, idx \in -1..1}
        \ {f \in FrameTypes \X (-1..1) : f[2] >= Len(TypeArgs(f[1]))}
LastFrames == OuterFrames \cup {<<TType("int"), -1>>, <<TType("str"), -1>>}

\* the lists of frames of an error: the last frame is the problem
ParentLists ==
    {<<>>} \cup
    UNION {{Append(s, f) : s \in [1..m -> OuterFrames], f \in LastFrames} :
              m \in 0..(MaxFrames - 1)}

ErrorRaised ==
    /\ \E parents \in ParentLists :
          thrown = NewConfigTypeError(parents, "Expected type")
    /\ cte = thrown
    /\ shown = <<>>
    /\ EngineIdle
    /\ TreeIdle
    /\ HeapIdle
    /\ BaseIdle
    /\ PathIdle

\* str(err)
Render ==
    /\ Len(shown) < MaxRenders
    /\ LET r == ConfigTypeError_str(cte) IN
           /\ shown' = Append(shown, r.text)
           /\ cte' = r.err
    /\ UNCHANGED thrown
    /\ UNCHANGED <<engineVars, treeVars, heapVars, baseVars, pathVars>>

ErrorNext == Render

SpecError == ErrorRaised /\ [][ErrorNext]_vars

----------------------------------------------------------------------------
(* Path normalization as a state machine: a string over the path alphabet *)
(* is drawn, one of the normalizers is chosen with the first pass, and    *)
(* each further pass feeds it its own last result.                        *)

\* the longest path string drawn
MaxPath == 3

\* the most passes made over one string
MaxPasses == 2

\* '/', '\\', '.' and an ordinary character
PathAlphabet == {"/", "\\", ".", "a"}

PathStrings == UNION {[1..n -> PathAlphabet] : n \in 0..MaxPath}

PathGiven ==
    /\ given \in PathStrings
    /\ normalizer = ""
    /\ normalized = <<>>
    /\ EngineIdle
    /\ TreeIdle
    /\ HeapIdle
    /\ BaseIdle
    /\ ErrorIdle

\* what the next pass works on
Current == IF normalized = <<>> THEN given ELSE normalized[Len(normalized)]

\* the normalizer name may make one more pass
MayPass(name) == normalizer \in {"", name} /\ Len(normalized) < MaxPasses

\* Path.normalize(path)
NormalizePath ==
    /\ MayPass("Path.normalize")
    /\ normalizer' = "Path.normalize"
    /\ normalized' = Append(normalized, Path_normalize(Current))
    /\ UNCHANGED given
    /\ UNCHANGED <<engineVars, treeVars, heapVars, baseVars, errorVars>>

\* validate_reserved(path, TypePath, parents)
ValidateReserved ==
    /\ MayPass("validate_reserved")
    /\ normalizer' = "validate_reserved"
    /\ normalized' =
           Append(normalized, validate_reserved(PyStr(Current), <<>>).val.v)
    /\ UNCHANGED given
    /\ UNCHANGED <<engineVars, treeVars, heapVars, baseVars, errorVars>>

\* PathType.create(path) of type_check/base.py
CreatePath ==
    /\ MayPass("PathType.create")
    /\ normalizer' = "PathType.create"
    /\ normalized' = Append(normalized, PathType_create(PyStr(Current)).v)
    /\ UNCHANGED given
    /\ UNCHANGED <<engineVars, treeVars, heapVars, baseVars, errorVars>>

\* PathType(path), the custom validator of type_check/custom_types.py
ValidatePath ==
    /\ MayPass("PathType")
    /\ normalizer' = "PathType"
    /\ normalized' =
           Append(normalized, PathType(PyStr(Current), <<>>).val.v)
    /\ UNCHANGED given
    /\ UNCHANGED <<engineVars, treeVars, heapVars, baseVars, errorVars>>

PathNext == NormalizePath \/ ValidateReserved \/ CreatePath \/ ValidatePath

SpecPath == PathGiven /\ [][PathNext]_vars

----------------------------------------------------------------------------
(* Properties of the validation engine *)

\* what validating x against the node n alone gives, with the validator e
Alone(e, n, x) ==
    IF e = "cfg" THEN CFG_validate(n, x, Parents) ELSE type_check(n, x, <<>>)

\* a validation of a present value against a node of kind t has just run
Validated(t) ==
    /\ op = "validate"
    /\ engine \in {"cfg", "tc"}
    /\ node.t = t

\* the positions (from 1) of the items of a list that their own element
\* schema of the tuple node n rejects
BadPositions(e, n, x) ==
    {i \in 1..Len(x.v) : ~Alone(e, n.items[i], x.v[i]).ok}

\* C1: a value that both members of a union [A, B] accept is validated to
\* A's result, by config.py's CFGUnionType.validate and by type_check alike.
C1_UnionFirstMatch ==
    Validated("union") =>
        LET ra == Alone(engine, node.types[1], value)
            rb == Alone(engine, node.types[2], value)
        IN (ra.ok /\ rb.ok) => (out.ok /\ out.val = ra.val)

\* C1, for config.py alone: CFGUnionType.validate calls its members in
\* declaration order, stops at the first that accepts and returns its result.
C1_CFGUnionInOrder ==
    (Validated("union") /\ engine = "cfg") =>
        /\ out.tried = [i \in 1..Len(out.tried) |-> i]
        /\ Len(out.tried) >= 1
        /\ Alone("cfg", node.types[1], value).ok =>
              /\ out.tried = <<1>>
              /\ out.ok
              /\ out.val = Alone("cfg", node.types[1], value).val
        /\ ~out.ok => Len(out.tried) = Len(node.types)

\* C2: a list of length M against a tuple of N element schemas fails with
\* the size error (expected N, found M) when M # N, whatever its items are;
\* when M = N and every item is valid for its position the result is the
\* tuple of the validated items in their order.
C2_TupleArity ==
    (Validated("tuple") /\ value.k = "list") =>
        LET N == Len(node.items)
            M == Len(value.v)
        IN /\ M # N =>
                /\ ~out.ok
                /\ out.err.what \in {"Too many items", "Too few items",
                                     "Expected a list or tuple of size"}
                /\ out.err.n = N
                /\ out.err.m = M
           /\ (M = N /\ BadPositions(engine, node, value) = {}) =>
                /\ out.ok
                /\ out.val = PyTuple([i \in 1..N |->
                                 Alone(engine, node.items[i], value.v[i]).val])

\* C3: with as many items as element schemas, the item at position i is
\* validated against the element schema of position i: the list is accepted
\* iff every item is valid for its own position, and a rejection names the
\* index of the first position that is not.
C3_TuplePositions ==
    (Validated("tuple") /\ value.k = "list" /\ Len(value.v) = Len(node.items)) =>
        LET bad == BadPositions(engine, node, value) IN
        /\ out.ok <=> bad = {}
        /\ ~out.ok => /\ out.err.index + 1 \in bad
                      /\ \A j \in bad : out.err.index + 1 <= j

\* C4: against Literal[a_0, ..., a_k] an absent value gives a_0; a present
\* value is accepted iff it equals one of the allowed values and is then
\* returned unchanged; the error of any other value lists every allowed value.
C4_Literal ==
    (node.t = "literal" /\ engine \in {"cfg", "tc"}) =>
        /\ op = "default" => (out.ok /\ out.val = node.lits[1])
        /\ op = "validate" =>
              /\ out.ok <=> (\E i \in 1..Len(node.lits) : PyEq(value, node.lits[i]))
              /\ out.ok => out.val = value
              /\ ~out.ok => out.err.expected = node.lits

\* C4's case: CFGLiteral.validate has returned a value equal to the second
\* of two allowed values
C4_Accepted ==
    /\ Validated("literal")
    /\ engine = "cfg"
    /\ Len(node.lits) = 2
    /\ PyEq(value, node.lits[2])
    /\ out.ok
    /\ out.val = value

\* every bound argument of the custom type is an instance of its annotation
\* and every parameter has its argument
WellBound(n) ==
    /\ FirstBadArg(n) = -1
    /\ Len(n.args) = Len(CustomType(n.name)._validator_args_)

\* C5: producing the default of a node of config.py, or of a custom type
\* with bound arguments, never fails, and validating the default against the
\* node returns a value equal to it.
C5_DefaultIdempotent ==
    (engine \in {"cfg", "ct"} /\ (node.t = "custom" => WellBound(node))) =>
        /\ op = "default" => out.ok
        /\ op = "revalidate" => (out.ok /\ PyEq(out.val, value))

\* a call of ct_validate on the custom type node has just run
CtCalled ==
    /\ engine = "ct"
    /\ op \in {"validate", "default"}
    /\ node.t = "custom"

\* the positions (from 1) of the bound arguments of the custom type ct that
\* are no instance of the annotation declared for their position: of the
\* parameter at the position, or of *args for an argument after the parameters
Mismatches(ct) ==
    LET C == CustomType(ct.name)
        N == Len(C._validator_args_)
    IN {i \in 1..Len(ct.args) :
           IF i <= N THEN ~IsInstance(ct.args[i], C._validator_arg_types_[i])
           ELSE /\ C._vararg_ # <<>>
                /\ C._vararg_[2] # "MISSING"
                /\ ~IsInstance(ct.args[i], C._vararg_[2])}

\* the last segment of the path of the error of the call
LastSegment == out.err.path[Len(out.err.path)]

\* C12: ct_validate checks every bound argument against the annotation of its
\* position before anything else: with a mismatching argument the call fails,
\* for a present value and for MISSING alike, with a ConfigTypeError whose
\* last path segment is (type, index of the first mismatching argument), and
\* the validator function is not called; without one no argument error is
\* raised.
C12_ArgumentsChecked ==
    CtCalled =>
        LET bad == Mismatches(node) IN
        /\ bad # {} =>
              /\ ~out.ok
              /\ out.err.exc = "ConfigTypeError"
              /\ out.err.what \in {"The type for arg", "The type for the varargs"}
              /\ LastSegment[1] = node
              /\ LastSegment[2] + 1 \in bad
              /\ \A j \in bad : LastSegment[2] + 1 <= j
              /\ ~out.called
        /\ bad = {} =>
              out.err.what \notin {"The type for arg", "The type for the varargs"}

\* C12's case: PathType[True, 'a', 1] is rejected for its third argument,
\* which is no str as *args requires, although no value is present
C12_VarargRejected ==
    /\ CtCalled
    /\ op = "default"
    /\ node.name = "PathType"
    /\ Len(node.args) = 3
    /\ Mismatches(node) = {3}
    /\ ~out.ok
    /\ LastSegment = <<node, 2>>

\* C13: for MISSING and correctly typed bound arguments ct_validate returns,
\* without calling the validator function, the declared constant default, the
\* bound argument i for the default ARG(i) (None when there is no such
\* argument), and without a declared default the value the return annotation
\* makes when called without arguments (None without a return annotation).
C13_MissingGivesDefault ==
    (CtCalled /\ op = "default" /\ Mismatches(node) = {}) =>
        LET C == CustomType(node.name) IN
        /\ out.ok
        /\ ~out.called
        /\ (C._default_ # MISSING /\ C._default_.k # "ARG") => out.val = C._default_
        /\ (C._default_.k = "ARG" /\ C._default_.v < Len(node.args)) =>
              out.val = node.args[C._default_.v + 1]
        /\ (C._default_.k = "ARG" /\ C._default_.v >= Len(node.args)) =>
              out.val = None
        /\ (C._default_ = MISSING /\ C._return_anno_ # "none") =>
              out.val = ZeroOf(C._return_anno_)
        /\ (C._default_ = MISSING /\ C._return_anno_ = "none") => out.val = None

\* C13's case: Between[1] has the default ARG(1) and one bound argument, and
\* the default of the absent value is None
C13_NoSuchArgument ==
    /\ CtCalled
    /\ op = "default"
    /\ node.name = "Between"
    /\ Len(node.args) = 1
    /\ Mismatches(node) = {}
    /\ out.ok
    /\ out.val = None

\* what the validator function of the custom type node does with the value
Verdict ==
    LET C == CustomType(node.name)
        stop == IF C._vararg_ = <<>>
                THEN Min(Len(node.args), Len(C._validator_args_))
                ELSE Len(node.args)
    IN Validator(node.name, value, SubSeq(node.args, 1, stop))

\* the parameters of the validator function of the custom type: value, the
\* parameters bound by the arguments, and *args if it has one
Parameters(C) ==
    {"value"} \cup {C._validator_args_[i] : i \in 1..Len(C._validator_args_)}
    \cup (IF C._vararg_ = <<>> THEN {} ELSE {C._vararg_[1]})

\* C14: when the validator function rejects a present value ct_validate
\* raises a ConfigTypeError with the function's message and the caller's
\* path before the last segment; the last segment is (type, index of the
\* parameter) when the function raised CustomTypeError naming a parameter, and
\* (type, None) when it raised TypeError or CustomTypeError without a name.
C14_RejectionIsConfigTypeError ==
    (CtCalled /\ op = "validate" /\ Mismatches(node) = {} /\ ~Verdict.ok) =>
        LET C == CustomType(node.name)
            e == Verdict.err
            named == e.exc = "CustomTypeError" /\ e.arg \in Parameters(C)
        IN /\ ~out.ok
           /\ out.err.exc = "ConfigTypeError"
           /\ out.err.what = e.what
           /\ SubSeq(out.err.path, 1, Len(out.err.path) - 1) = CtParents
           /\ LastSegment[1] = node
           /\ named => /\ LastSegment[2] >= 0
                       /\ C._validator_args_[LastSegment[2] + 1] = e.arg
           /\ ~named => LastSegment[2] = -1

\* C15: Range[min, max] accepts an integer v iff min <= v < max and returns
\* it unchanged; the error of any other integer names min <= value < max
\* with the two bounds.
C15_Range ==
    (CtCalled /\ op = "validate" /\ node.name = "Range" /\ Len(node.args) = 2
     /\ Mismatches(node) = {} /\ value.k = "int") =>
        LET min == Num(node.args[1])
            max == Num(node.args[2])
        IN /\ out.ok <=> (min <= value.v /\ value.v < max)
           /\ out.ok => out.val = value
           /\ ~out.ok => /\ out.err.what = "Expected min <= value < max"
                         /\ out.err.n = min
                         /\ out.err.m = max

\* C15's case: Range[0, 2] rejects 2, the excluded upper bound, and names
\* 0 <= value < 2
C15_UpperBoundRejected ==
    /\ CtCalled
    /\ op = "validate"
    /\ node = TCustom("Range", <<PyInt(0), PyInt(2)>>)
    /\ value = PyInt(2)
    /\ ~out.ok
    /\ out.err.n = 0
    /\ out.err.m = 2

\* C16: the absent value validated against int, bool or str gives the zero
\* value of the type, by config.py and by type_check, and never fails.
C16_ScalarZero ==
    (op = "default" /\ engine \in {"cfg", "tc"} /\ node.t = "type"
     /\ node.ty \in {"int", "bool", "str"}) =>
        (out.ok /\ out.val = ZeroOf(node.ty))

\* C18: a list validated against list[E] gives the list of the results of
\* validating its items against E, in their order; validated against set[E]
\* it gives the set of those results.
C18_ItemsReplaced ==
    (op = "validate" /\ engine \in {"cfg", "tc"} /\ node.t \in {"list", "set"}
     /\ value.k = "list") =>
        LET r == [i \in 1..Len(value.v) |-> Alone(engine, node.item, value.v[i])]
            all == \A i \in 1..Len(value.v) : r[i].ok
        IN /\ out.ok <=> all
           /\ (all /\ node.t = "list") =>
                 out.val = PyList([i \in 1..Len(value.v) |-> r[i].val])
           /\ (all /\ node.t = "set") =>
                 PyEq(out.val, PySet({r[i].val : i \in 1..Len(value.v)}))

\* C19: a value validated against dict[K, V] must be a mapping, and it is
\* accepted iff every key is valid for K and every value for V; the error of
\* a rejected mapping gives an offending key.
C19_DictKeysAndValues ==
    (Validated("dict") /\ node.key = TType("str")) =>
        /\ value.k # "dict" => ~out.ok
        /\ value.k = "dict" =>
              LET bad == {i \in 1..Len(value.v) :
                             \/ ~Alone(engine, node.key, value.v[i][1]).ok
                             \/ ~Alone(engine, node.val, value.v[i][2]).ok}
              IN /\ out.ok <=> bad = {}
                 /\ ~out.ok => \E i \in bad : out.err.found = value.v[i][1]

----------------------------------------------------------------------------
(* Properties of the object tree *)

\* the constructor has returned or raised and nothing was assigned since
JustBuilt == pc \in {"built", "failed"} /\ changed = <<>>

\* the positions of the items of the mapping d whose key names no field of cls
Undeclared(cls, d) ==
    {i \in 1..Len(d.v) :
        \A j \in 1..Len(cls.fields) : Key(cls.fields[j].key) # d.v[i][1]}

\* the mapping d without the items whose key names no field of cls
DeclaredPart(cls, d) ==
    PyDict(SelectSeq(d.v, LAMBDA it :
               \E j \in 1..Len(cls.fields) : Key(cls.fields[j].key) = it[1]))

\* the location the root config reports: its parents
RootPath == parents_of(which, root, <<>>)

\* item i of the raw mapping passes the first loop of __validate__ alone
EntryPasses(i) ==
    LET made == tcfg_setup(which, root).obj
        key == raw.v[i][1]
    IN /\ Declared(made, key)
       /\ \/ IsNested(Entry(made, key).type)
          \/ validate_value(which, Entry(made, key).type, raw.v[i][2],
                            RootPath, key).ok

C7_NonStrictIgnores ==
    (JustBuilt /\ ~isStrict /\ raw.k = "dict" /\ Undeclared(root, raw) # {}
       /\ cfg_new(which, root, DeclaredPart(root, raw), <<>>, FALSE).ok) =>
        /\ inst.ok
        /\ inst.obj = cfg_new(which, root, DeclaredPart(root, raw), <<>>, FALSE).obj

\* the data __validate__ works on: data or {}
Effective == IF Truthy(raw) THEN raw ELSE PyDict(<<>>)

\* the default __tcfg_setup__ gives a field that declares no value
Synthesized(impl, anno) ==
    IF impl = "tcfg" THEN CFG_default(anno).val ELSE get_default(anno)

RECURSIVE AllDefaults(_, _)
\* every field of the instance n holds its declared value, or the default of
\* its type when it declares none, and so does every config nested in it
AllDefaults(impl, n) ==
    \A j \in 1..Len(n.cls.fields) :
        LET g == n.cls.fields[j]
            x == getattr(n, g.key)
        IN IF IsNested(g.anno) THEN x.k = "cfg" /\ AllDefaults(impl, x)
           ELSE IF g.default = MISSING THEN x = Synthesized(impl, g.anno)
           ELSE IF g.default.k = "Path" THEN x = PyStr(g.default.v)
           ELSE x = g.default

C9_NestedNeedsMapping ==
    (JustBuilt /\ which = "tcfg" /\ raw.k = "dict" /\ tcfg_setup(which, root).ok
       /\ \A i \in 1..Len(raw.v) : EntryPasses(i)) =>
        \A i \in 1..Len(root.fields) :
            LET f == root.fields[i] IN
            (IsNested(f.anno) /\ HasKey(raw, Key(f.key))) =>
                LET x == Lookup(raw, Key(f.key))
                    r == cfg_new(which, f.anno.cls, x, RootPath \o <<f.key>>, TRUE)
                IN /\ x.k # "dict" => ~inst.ok
                   /\ (x.k = "dict" /\ ~r.ok) => ~inst.ok
                   /\ (x.k = "dict" /\ inst.ok) => getattr(inst.obj, f.key) = r.obj

\* the files a mapping was written to while the save mapping was built
Written ==
    {saved.writes[k][1] :
        k \in {j \in 1..Len(saved.writes) : saved.writes[j][2] # MISSING}}

RECURSIVE NestedIn(_)
\* the instances nested in an instance, at any depth
NestedIn(obj) ==
    UNION {LET x == getattr(obj, obj.values[i].key) IN
           IF x.k = "cfg" THEN {x} \cup NestedIn(x) ELSE {} :
           i \in 1..Len(obj.values)}

RECURSIVE StatedItems(_, _, _, _, _)
\* The items of a save mapping as stated from entry i of __tcfg_values__ on:
\* a field is an item iff its value differs from its default or defaults is
\* set; a nested config whose _path_ is not in apart is an item iff its own
\* mapping has items or force is set; one whose _path_ is in apart is none.
StatedItems(obj, defaults, apart, force, i) ==
    IF i > Len(obj.values) THEN <<>>
    ELSE LET e == obj.values[i]
             x == getattr(obj, e.key)
             sub == StatedItems(x, defaults, apart, force, 1)
             own == IF x.k = "cfg"
                    THEN IF x.path \notin apart /\ (Len(sub) > 0 \/ force)
                         THEN <<<<Key(e.key), PyDict(sub)>>>>
                         ELSE <<>>
                    ELSE IF ~PyEq(x, e.default) \/ defaults
                    THEN <<<<Key(e.key), x>>>>
                    ELSE <<>>
         IN own \o StatedItems(obj, defaults, apart, force, i + 1)

RECURSIVE ValueAt(_, _)
\* obj.a.b for the path <<a, b>>
ValueAt(obj, path) ==
    IF Len(path) = 1 THEN getattr(obj, path[1])
    ELSE ValueAt(getattr(obj, path[1]), Tail(path))

RECURSIVE Under(_, _)
\* the mapping that holds x under the keys of path, nested in their order
Under(path, x) ==
    IF Len(path) = 1 THEN PyDict(<<<<Key(path[1]), x>>>>)
    ELSE PyDict(<<<<Key(path[1]), Under(Tail(path), x)>>>>)

\* the instance was built without input, one of its fields was then assigned
\* a value other than its default, and the mapping was built without defaults
OneChange ==
    /\ pc = "saved"
    /\ Effective = PyDict(<<>>)
    /\ Len(changed) = 1
    /\ ~saved.defaults
    /\ ~PyEq(changed[1][2],
             ValueAt(cfg_new(which, root, raw, <<>>, isStrict).obj, changed[1][1]))

\* the instance was built without input, nothing was assigned, and the
\* mapping was built without defaults
Fresh ==
    /\ pc = "saved"
    /\ Effective = PyDict(<<>>)
    /\ changed = <<>>
    /\ ~saved.defaults

----------------------------------------------------------------------------
(* Properties of default production *)

\* C17: the defaults the instances of a class get are value-equal, and a
\* container of the field of one instance, mutated in place at any depth,
\* changes neither the field of another instance nor the default declared on
\* the class.
C17_DefaultsUnshared ==
    /\ hit = <<>> =>
          \A i, j \in 1..Len(held) : Deep(heap, held[i]) = Deep(heap, held[j])
    /\ hit # <<>> =>
          /\ \A j \in 1..Len(before.objs) :
                 j # hit[Len(hit)] => Deep(heap, held[j]) = before.objs[j]
          /\ ClassDefault(heap) = before.cls

----------------------------------------------------------------------------
(* Properties of ConfigBase *)

\* an item of an attribute declared by Options(...) has just been assigned
OptionsAssigned ==
    /\ lastSet.op = "set"
    /\ InContext(baseCls.attrs, lastSet.key)
    /\ Context(baseCls.attrs, lastSet.key).k = "Options"

\* C11: as_dict() of a ConfigBase instance is a mapping whose keys are exactly
\* the declared attribute names, each with the value that reading the
\* attribute gives; after an accepted cfg[key] = v, as_dict()[key] == v.
C11_AsDictIsCurrent ==
    basePc = "read" =>
        /\ {asDict.v[i][1] : i \in 1..Len(asDict.v)}
              = {Key(baseCls.attrs[i][1]) : i \in 1..Len(baseCls.attrs)}
        /\ \A i \in 1..Len(asDict.v) :
              PyEq(asDict.v[i][2], getattr(base.obj, asDict.v[i][1].v[1]))
        /\ (lastSet.op = "set" /\ lastSet.ok) =>
              PyEq(Lookup(asDict, Key(lastSet.key)), lastSet.val)

\* C20: a value assigned to an Options attribute with the allowed values S is
\* accepted exactly when it is one of S; a value whose type is the type of no
\* member of S fails with the "type(s)" error, and a value of such a type
\* that is not in S fails with the "values" error.
C20_OptionsMembership ==
    OptionsAssigned =>
        LET attr == Context(baseCls.attrs, lastSet.key)
            x == lastSet.val
            member == \E i \in 1..Len(attr.options) : x = attr.options[i]
            typed == \E i \in 1..Len(attr.options) :
                        TypeName(x) = TypeName(attr.options[i])
        IN /\ lastSet.ok <=> member
           /\ ~typed => /\ ~lastSet.ok
                        /\ lastSet.err.exc = "TypeError"
                        /\ lastSet.err.what = "must be on of these type(s)"
           /\ (typed /\ ~member) =>
                 /\ ~lastSet.ok
                 /\ lastSet.err.exc = "TypeError"
                 /\ lastSet.err.what = "must be one of the following values"

\* __tedconfig_validated__ as a set: the keys recorded as supplied
Recorded(obj) == {obj.validated[i] : i \in 1..Len(obj.validated)}

\* the value x satisfies the declaration of an attribute
Conforms(declared, x) ==
    CASE declared.k = "Options" ->
            \E i \in 1..Len(declared.options) : PyEq(x, declared.options[i])
      [] declared.k = "TypesDefault" ->
            /\ \E i \in 1..Len(declared.types) : IsInstance(x, declared.types[i])
            /\ (x.k \in {"list", "tuple"} /\ declared.nested_types # <<"None">>) =>
                  \A j \in 1..Len(x.v) :
                      \E i \in 1..Len(declared.nested_types) :
                          IsInstance(x.v[j], declared.nested_types[i])
      [] declared.k \in {"list", "tuple"} ->
            /\ x.k \in {"list", "tuple"}
            /\ \A j \in 1..Len(x.v) :
                  \E ty \in all_types(declared) : IsInstance(x.v[j], ty)
      [] OTHER -> IsInstance(x, type_of(declared))

\* a step that assigned or deleted an item
ItemStep == nSet' = nSet + 1

\* C21: after construction and after any item assignments and deletions,
\* the value of every declared attribute of a ConfigBase instance satisfies
\* its declaration.
C21_FieldsConform ==
    basePc \in {"built", "read"} =>
        \A i \in 1..Len(baseCls.attrs) :
            Conforms(baseCls.attrs[i][2], getattr(base.obj, baseCls.attrs[i][1]))

\* C26: the keys a ConfigBase instance records as supplied are those of the
\* mapping it was built from; an accepted assignment adds its key, and
\* nothing else (a rejected assignment, a deletion, as_dict(), building the
\* save mapping) changes the record.
C26_SuppliedRecord ==
    [][/\ basePc = "new" /\ basePc' = "built" =>
              Recorded(base'.obj) =
                  IF baseCfg.k = "dict"
                  THEN {baseCfg.v[i][1].v[1] : i \in 1..Len(baseCfg.v)} ELSE {}
       /\ basePc # "new" =>
              Recorded(base'.obj) =
                  IF ItemStep /\ lastSet'.op = "set" /\ lastSet'.ok
                  THEN Recorded(base.obj) \cup {lastSet'.key}
                  ELSE Recorded(base.obj)]_vars

\* C27: a rejected item assignment leaves the ConfigBase instance as it was:
\* every attribute value and the record of validated keys.
C27_RejectedAssignmentKeepsInstance ==
    [][(ItemStep /\ lastSet'.op = "set" /\ ~lastSet'.ok) =>
           base'.obj = base.obj]_vars

----------------------------------------------------------------------------
(* Properties of a build, entry by entry *)

\* the instance as __tcfg_setup__ leaves it, with the strict flag of the build
AfterSetup == [tcfg_setup(which, root).obj EXCEPT !.strict = isStrict]

\* what __validate__ gives for the mapping that holds item i of raw alone
EntryAlone(i) == cfg_validate(which, AfterSetup, PyDict(<<raw.v[i]>>), RootPath)

\* the items of raw that are invalid: a build from the item alone fails
InvalidEntries == {i \in 1..Len(raw.v) : ~EntryAlone(i).ok}

\* the place of item i of raw in the order __validate__ works in: the items
\* that name no nested config first, in the order of raw, then the nested
\* configs in the order of their declaration
Turn(i) ==
    LET key == raw.v[i][1] IN
    IF Declared(AfterSetup, key) /\ IsNested(Entry(AfterSetup, key).type)
    THEN Len(raw.v)
           + (CHOOSE j \in 1..Len(AfterSetup.values) :
                  Key(AfterSetup.values[j].key) = key)
    ELSE i

\* a build by tcfg/config.py from a mapping has just ended, for a class whose
\* build from {} succeeds
BuiltFromMapping ==
    /\ JustBuilt
    /\ which = "tcfg"
    /\ raw.k = "dict"
    /\ tcfg_setup(which, root).ok
    /\ cfg_validate(which, AfterSetup, PyDict(<<>>), RootPath).ok

\* the build failed with the error of item f of raw, the declared items
\* in done hold their validated values and those in left what
\* __tcfg_setup__ gave them
FailedAt(f, done, left) ==
    /\ ~inst.ok
    /\ inst.err = EntryAlone(f).err
    /\ \A i \in done :
          LET name == raw.v[i][1].v[1] IN
          getattr(inst.obj, name) = getattr(EntryAlone(i).obj, name)
    /\ \A i \in left :
          LET name == raw.v[i][1].v[1] IN
          hasattr(AfterSetup, name) =>
              getattr(inst.obj, name) = getattr(AfterSetup, name)

ItemAlone(i) == ConfigBase_init(baseCls, PyDict(<<baseCfg.v[i]>>))

\* C22, for ConfigBase: a construction from a mapping with invalid items
\* fails with the error of the first of them in the order of the mapping;
\* the items before it are assigned on the instance, those after it are not.
C22_ParseFailFast ==
    (basePc \in {"built", "failed"} /\ lastSet.op = "none" /\ baseCfg.k = "dict") =>
        LET bad == {i \in 1..Len(baseCfg.v) : ~ItemAlone(i).ok} IN
        bad # {} =>
            LET f == CHOOSE i \in bad : \A j \in bad : i <= j IN
            /\ ~base.ok
            /\ base.err = ItemAlone(f).err
            /\ \A i \in 1..(f - 1) :
                  getattr(base.obj, baseCfg.v[i][1].v[1]) = baseCfg.v[i][2]
            /\ \A i \in (f + 1)..Len(baseCfg.v) :
                  LET name == baseCfg.v[i][1].v[1] IN
                  hasattr(base.obj, name) =>
                      getattr(base.obj, name) = getattr(BaseObj(baseCls), name)

\* item i of raw names a nested config and holds a mapping with a key the
\* nested class does not declare
NestedUnknown(i) ==
    LET key == raw.v[i][1] IN
    /\ Declared(AfterSetup, key)
    /\ IsNested(Entry(AfterSetup, key).type)
    /\ raw.v[i][2].k = "dict"
    /\ Undeclared(Entry(AfterSetup, key).type.cls, raw.v[i][2]) # {}

\* raw without the undeclared keys of the mappings of its nested configs
WithoutNestedUnknown ==
    PyDict([i \in 1..Len(raw.v) |->
              IF NestedUnknown(i)
              THEN <<raw.v[i][1],
                     DeclaredPart(Entry(AfterSetup, raw.v[i][1]).type.cls,
                                  raw.v[i][2])>>
              ELSE raw.v[i]])

\* C29: the strict flag of the root applies to the nested configs: a key
\* that a nested config does not declare makes the build fail when the root
\* is built with strict=True and is not rejected when it is built with
\* strict=False (the build succeeds when it succeeds without those keys).
C29_StrictAppliesToNested ==
    (/\ JustBuilt
     /\ raw.k = "dict"
     /\ tcfg_setup(which, root).ok
     /\ \E i \in 1..Len(raw.v) : NestedUnknown(i)) =>
        /\ isStrict => ~inst.ok
        /\ (~isStrict /\ cfg_new(which, root, WithoutNestedUnknown, <<>>, FALSE).ok)
              => inst.ok

\* C24: a build leaves the raw data it was given as it was, whether it
\* succeeded or failed: the mapping and every list and mapping in it have
\* the keys, items and values they had before the call.
C24_InputUnchanged ==
    JustBuilt => inst.inp = raw

\* C24, for the validators of tcfg/config.py alone: validating a value
\* leaves the value, and every list and mapping in it, as it was.
C24_ValidateKeepsValue ==
    (op = "validate" /\ engine = "cfg") => out.inp = value

\* a list of lists has just been validated against list[list[T]], T a class
NestedListValidated ==
    /\ Validated("list")
    /\ node.item.t = "list"
    /\ node.item.item.t = "type"
    /\ value.k = "list"
    /\ \A i \in 1..Len(value.v) : value.v[i].k = "list"

\* the positions <<i, j>> (from 1) of the inner items that are no T
InnerMismatches ==
    {p \in (1..Len(value.v)) \X (1..MaxLen) :
        /\ p[2] <= Len(value.v[p[1]].v)
        /\ ~IsInstance(value.v[p[1]].v[p[2]], node.item.item.ty)}

\* the indices an error names: the index of its message and, for a
\* ConfigTypeError of type_check, the indices of its path frames
IndicesNamed(err) ==
    {err.index} \cup (IF err.exc = "ConfigTypeError"
                      THEN {err.path[k][2] : k \in 1..Len(err.path)} ELSE {})

\* C23: when an item j of an inner list i is invalid, the error delivered
\* describes that item: it names the index i and the index j, the value found
\* is the item, and what it expects is the inner element type.
C23_DeepestFailureSurfaces ==
    (NestedListValidated /\ InnerMismatches # {}) =>
        LET p == CHOOSE q \in InnerMismatches :
                     \A r \in InnerMismatches :
                         q[1] < r[1] \/ (q[1] = r[1] /\ q[2] <= r[2])
        IN /\ ~out.ok
           /\ out.err.found = value.v[p[1]].v[p[2]]
           /\ out.err.expected = <<node.item.item>>
           /\ {p[1] - 1, p[2] - 1} \subseteq IndicesNamed(out.err)

----------------------------------------------------------------------------
(* Properties of error rendering *)

\* C28: rendering a ConfigTypeError leaves its parents as they were, their
\* number and their order, and every rendering of one error gives the same
\* string.
C28_RenderingIsPure ==
    /\ cte.parents = thrown.parents
    /\ \A i \in 1..Len(shown) : shown[i] = shown[1]

----------------------------------------------------------------------------
(* Properties of path normalization *)

\* C30: normalizing an already normalized path returns it unchanged, for
\* each of the normalizers, and a normalized path holds no backslash.
C30_NormalizeIdempotent ==
    /\ \A i \in 1..Len(normalized) :
           \A j \in 1..Len(normalized[i]) : normalized[i][j] # "\\"
    /\ \A i \in 2..Len(normalized) : normalized[i] = normalized[i - 1]

\* the part of C30 the code keeps: no result holds a backslash, and the two
\* normalizers of reserved.py / config.py are idempotent
C30_StrippingNormalizersIdempotent ==
    /\ \A i \in 1..Len(normalized) :
           \A j \in 1..Len(normalized[i]) : normalized[i][j] # "\\"
    /\ normalizer \in {"Path.normalize", "validate_reserved"} =>
           \A i \in 2..Len(normalized) : normalized[i] = normalized[i - 1]

----------------------------------------------------------------------------
(* Properties of schema definitions *)

\* the errors that tell of the schema and not of the value: a bound argument
\* of the wrong type, and a type shape no validator handles
DefinitionErrors ==
    {"The type for arg", "The type for the varargs", "Unkown GenericAlias"}

\* C25: a schema node is built without error before any value is examined,
\* so validating a value, present or MISSING, against it never ends with a
\* definition error.
C25_NoDefinitionErrorWhenValidating ==
    op \in {"validate", "default", "revalidate"} =>
        out.ok \/ out.err.what \notin DefinitionErrors

=============================================================================
